---- MODULE Spec2Model ----
(***************************************************************************)
(* The voice pipeline of components/typescript/src/index.ts: one WebSocket *)
(* session with its input channel, the Transcription stage (sttStream),    *)
(* the Agent stage (agentStream), the Synthesis stage (ttsStream) and the  *)
(* egress loop (flushPromise).                                             *)
(*                                                                         *)
(* Execution model.  Every async generator is pulled by exactly one        *)
(* for-await loop, so a generator runs only while its consumer waits in    *)
(* next(): a `yield` hands the event to the consumer, whose loop body runs *)
(* up to its next await.  An agentStream yield is therefore modelled       *)
(* together with the ttsStream producer's handling of the yielded event.   *)
(* The vendors (recognizer, agent, synthesizer) are the environment: a     *)
(* call to them is pending until the environment lets it return or throw.  *)
(***************************************************************************)
EXTENDS Integers, Sequences, FiniteSets, TLC

\* ------------------------------------------------------------------ bounds
MaxFrames == 2       \* WebSocket frames received in one session
MaxSttEvents == 2    \* events the recognizer emits in one session
MaxAgentMsgs == 2    \* messages the agent streams in one session
MaxAudio == 2        \* audio chunks the synthesizer emits in one session
MaxSessions == 2        \* concurrent sessions of the process
MaxSessionFrames == 1   \* frames per session, when sessions run side by side
MaxSessionTurns == 1    \* final transcripts per session, side by side
MaxSessionAudio == 1    \* audio chunks per session, side by side

\* A session is explored in three scenarios: many frames and little talk,
\* one frame and a conversation, or one turn and much audio.
Scenarios ==
    { [frames |-> MaxFrames, sttEvents |-> 1, agentMsgs |-> 0, audio |-> 0],
      [frames |-> 1, sttEvents |-> MaxSttEvents, agentMsgs |-> MaxAgentMsgs,
       audio |-> MaxAudio - 1],
      [frames |-> 1, sttEvents |-> MaxSttEvents + 1, agentMsgs |-> 0,
       audio |-> MaxAudio] }

\* ------------------------------------------------------------------- texts
\* A text is a sequence of one-character strings; "" + "" is \o.
Whitespace == {" ", "\t", "\n"}

LowerOf == [A |-> "a", B |-> "b", C |-> "c", D |-> "d", E |-> "e", F |-> "f",
            G |-> "g", H |-> "h", I |-> "i", J |-> "j", K |-> "k", L |-> "l",
            M |-> "m", N |-> "n", O |-> "o", P |-> "p", Q |-> "q", R |-> "r",
            S |-> "s", T |-> "t", U |-> "u", V |-> "v", W |-> "w", X |-> "x",
            Y |-> "y", Z |-> "z"]

\* Case folding of the regular expression's i flag, one character.
FoldChar(c) == IF c \in DOMAIN LowerOf THEN LowerOf[c] ELSE c

FoldCase(s) == [i \in 1..Len(s) |-> FoldChar(s[i])]

RECURSIVE TrimStart(_)
TrimStart(s) ==
    IF s # <<>> /\ Head(s) \in Whitespace THEN TrimStart(Tail(s)) ELSE s

RECURSIVE TrimEnd(_)
TrimEnd(s) ==
    IF s # <<>> /\ s[Len(s)] \in Whitespace
    THEN TrimEnd(SubSeq(s, 1, Len(s) - 1))
    ELSE s

\* String.prototype.trim
trim(s) == TrimEnd(TrimStart(s))

\* The alternatives of greetingPattern.
GreetingWords ==
    { <<"h","e","l","l","o">>, <<"h","i">>, <<"h","e","y">>,
      <<"g","o","o","d"," ","m","o","r","n","i","n","g">>,
      <<"g","o","o","d"," ","a","f","t","e","r","n","o","o","n">>,
      <<"g","o","o","d"," ","e","v","e","n","i","n","g">> }

\* /^(hello|hi|hey|good morning|good afternoon|good evening)\.?$/i matched
\* left to right: an alternative at the start, then an optional ".", then
\* the end of the input.
RegexMatch(s) ==
    \E w \in GreetingWords :
        /\ Len(s) >= Len(w)
        /\ FoldCase(SubSeq(s, 1, Len(w))) = w
        /\ LET rest == SubSeq(s, Len(w) + 1, Len(s))
           IN  rest = <<>> \/ rest = <<".">>

\* A faulty variant of greetingPattern_test: the transcript is not trimmed.
greetingPattern_test_untrimmed(transcript) == RegexMatch(transcript)

\* greetingPattern.test(event.transcript.trim())
greetingPattern_test(transcript) == RegexMatch(trim(transcript))

\* The fixed reply of the greeting fast path (one piece of text).
GreetingReply ==
    << "Hi! Welcome to our sandwich shop. What size sandwich would you like? We have small, medium, or large." >>

\* buffer.join("")
RECURSIVE Join(_)
Join(texts) == IF texts = <<>> THEN <<>> ELSE Head(texts) \o Join(Tail(texts))

\* ------------------------------------------------------------------ events
\* VoiceAgentEvent, without its ts field.  text is the transcript or the
\* text; id is the tool call id of tool_call / tool_result and the identity
\* of the audio of a tts_chunk.
NoId == <<"", 0>>            \* the empty string as a call id
Undefined == <<"undefined", 0>>
CallId(k) == <<"call", k>>   \* an id the agent collaborator supplied
Uuid(n) == <<"uuid", n>>     \* the n-th value uuidv4() returns
AudioId(n) == <<"audio", n>>

Ev(type, text, id) == [type |-> type, text |-> text, id |-> id]
SttChunk(t) == Ev("stt_chunk", t, NoId)
SttOutput(t) == Ev("stt_output", t, NoId)
AgentChunk(t) == Ev("agent_chunk", t, NoId)
AgentEnd == Ev("agent_end", <<>>, NoId)
ToolCall(id) == Ev("tool_call", <<>>, id)
ToolResult(id) == Ev("tool_result", <<>>, id)
TtsChunk(n) == Ev("tts_chunk", <<>>, AudioId(n))

\* What the recognizer may say.
PartialTexts == { <<"h">> }
FinalTexts == { <<" ","H","i","."," ">>, <<"h","i"," ","y","o","u">> }
SttEvents == {SttChunk(t) : t \in PartialTexts} \cup {SttOutput(t) : t \in FinalTexts}


\* ------------------------------------------------------------- Event Queue
\* writableIterator<T>(): items pushed and not yet delivered, and whether
\* cancel() was called.
QNew == [items |-> <<>>, done |-> FALSE]

\* A faulty variant of QPush: the item is put in front of the waiting items.
QPushFront(q, x) == [q EXCEPT !.items = <<x>> \o @]

\* push(item)
QPush(q, x) == [q EXCEPT !.items = Append(@, x)]

\* cancel()
QCancel(q) == [q EXCEPT !.done = TRUE]

\* A faulty variant of QNext: a cancelled queue ends at once, whatever it holds.
QNextEndFirst(q) ==
    IF q.done THEN [kind |-> "end", rest |-> q]
    ELSE IF q.items # <<>> THEN [kind |-> "item", rest |-> [q EXCEPT !.items = Tail(@)]]
    ELSE [kind |-> "wait", rest |-> q]

\* The consumer's next(): the oldest item, else end-of-stream once
\* cancelled, else the consumer waits.  The item itself is Head(q.items).
QNext(q) ==
    IF q.items # <<>> THEN [kind |-> "item", rest |-> [q EXCEPT !.items = Tail(@)]]
    ELSE IF q.done THEN [kind |-> "end", rest |-> q]
    ELSE [kind |-> "wait", rest |-> q]

RECURSIVE QPushAll(_, _)
QPushAll(q, xs) == IF xs = <<>> THEN q ELSE QPushAll(QPush(q, Head(xs)), Tail(xs))

\* ---------------------------------------------------------------- sessions
\* The process serves several sockets.  Every call of the upgradeWebSocket
\* callback is one session; the objects it creates are numbered like the
\* call that created them, and a socket like the session it belongs to.
SessionIds == 1..MaxSessions

\* Before any socket event: no session has a socket, and the input channel,
\* the recognizer, the synthesizer and the socket of every session have seen
\* nothing.  inputs is the history of what each session received from its
\* socket, its vendors and the agent.
SessionsNew ==
    [ currentSocket |-> [c \in SessionIds |-> 0],
      inputStream   |-> [c \in SessionIds |-> QNew],
      sttSent       |-> [c \in SessionIds |-> <<>>],
      ttsSent       |-> [c \in SessionIds |-> <<>>],
      wsSent        |-> [w \in SessionIds |-> <<>>],
      inputs        |-> [c \in SessionIds |-> <<>>] ]

\* ------------------------------------------------------------- order store
\* The order tools keep one module-level Map from customerId to an order.
\* A Map is a function on the keys it holds; new Map() holds none.
MapNew == [k \in {} |-> [items |-> <<>>]]
MapHas(m, k) == k \in DOMAIN m
MapSet(m, k, v) == [x \in DOMAIN m \cup {k} |-> IF x = k THEN v ELSE m[x]]
\* A faulty variant of MapDelete: the first line of the order is dropped.
MapDeleteFirstLine(m, k) == [m EXCEPT ![k].items = Tail(@)]

MapDelete(m, k) == [x \in DOMAIN m \ {k} |-> m[x]]

\* No tool has been called yet, no task classified.
NoCall == [op |-> "none"]
NoResult == [kind |-> "none"]

\* No session's agent has called a tool yet.
NoCaller == [last |-> 0, earlier |-> {}]
NoTask == <<>>

\* ------------------------------------------------------ the web transform
\* An AgentTransform whose constructor drew the thread id `id`: no text
\* written to it, no graph stream opened, nothing enqueued.  Before the
\* constructor has run, the id is Undefined.
TransformNew(id) ==
    [ threadId |-> id, written |-> 0, started |-> 0, pc |-> "idle",
      calls |-> <<>>, streamed |-> <<>>, enqueued |-> <<>> ]

\* ------------------------------------------------------------------- state
VARIABLES
    orderState,      \* order tools: the Map from customerId to its order
    toolCall,        \* order tools, history: the last tool invocation
    toolResult,      \* order tools: what the last invocation returned
    toolCaller,      \* order tools, history: the session whose agent called last,
                     \* and the sessions that called before
    task,            \* classifier: the task last classified
    agentType,       \* classifier: what classifyTask returned for it
    transform,       \* web: one AgentTransform and its two ends
    limits,          \* the scenario: how much the environment does
    sessions,        \* the sessions of the process, in outline (see Sessions below)
    wsState,         \* the transport: "connecting", "open", "closed"
    currentSocket,   \* TRUE once onOpen stored the socket
    framesIn,        \* number of frames onMessage has seen
    frameLog,        \* history: the kind of each frame onMessage has seen
    inputStream,     \* the session's input channel (an Event Queue of frames)
    inputPushed,     \* history: the frames pushed into inputStream
    queuedAtCancel,  \* history: frames waiting in inputStream at cancel(), -1 before
    sttProd,         \* sttStream producer: "reading", "sending", "closing", "done", "rejected"
    sttProdFailed,   \* the producer's try block threw (sendAudio failed)
    sttSawEnd,       \* history: the producer's for-await observed end-of-stream
    sttCons,         \* sttStream consumer: "reading", "done"
    sttGen,          \* sttStream body: "running" (yield*), "finally", "done"
    sttPass,         \* sttStream's passthrough queue
    sttSendLog,      \* history: the chunks passed to stt.sendAudio
    sttCloseCalls,   \* number of stt.close() calls
    sttEmitted,      \* number of events the recognizer has emitted
    sttPushed,       \* history: what the consumer pushed into sttPass
    agentPc,         \* agentStream: "idle", "creating", "streaming", "atYield", "returning",
                     \* "throwing", "done"
    agentIn,         \* history: the events agentStream received
    agentOut,        \* history: the events agentStream yielded
    agentCalls,      \* history: the transcripts passed to agent.stream
    agentConfigs,    \* history: the options passed to agent.stream
    agentErrors,     \* number of errors the catch block logged
    agentMsgs,       \* messages the agent has streamed
    agentIssued,     \* the collaborator's tool calls of this turn awaiting their result
    callsMade,       \* ids the collaborator has supplied so far
    uuidsMade,       \* number of uuidv4() calls for tool_call ids
    ttsProd,         \* ttsStream producer: "reading", "sending", "unwinding", "closing", "done", "rejected"
    ttsProdFailed,   \* the producer's try block threw
    ttsCons,         \* ttsStream consumer: "reading", "done"
    ttsGen,          \* ttsStream body: "running" (yield*), "done"
    ttsPass,         \* ttsStream's passthrough queue
    buffer,          \* the producer's buffer of agent_chunk texts
    ttsSendLog,      \* history: the texts passed to tts.sendText
    ttsCloseCalls,   \* number of tts.close() calls
    ttsEmitted,      \* number of audio chunks the synthesizer has emitted
    ttsPushedUp,     \* history: what the producer pushed into ttsPass
    ttsPushedAudio,  \* history: what the consumer pushed into ttsPass
    ttsOut,          \* history: the events ttsStream yielded to the egress loop
    wsSent,          \* history: the frames written to the socket
    flushPc,         \* flushPromise: "running", "done"
    crashed          \* the process died of an unhandled promise rejection

orderVars == <<orderState, toolCall, toolResult, toolCaller>>
classifyVars == <<task, agentType>>
utilVars == <<orderVars, classifyVars, transform>>
envVars == <<limits, sessions, utilVars>>
wsVars == <<envVars, wsState, currentSocket, framesIn, frameLog, inputStream, inputPushed,
           queuedAtCancel>>
sttTaskVars == <<sttProd, sttProdFailed, sttSawEnd, sttSendLog, sttCloseCalls>>
sttVendorVars == <<sttCons, sttEmitted, sttPushed>>
agentVars == <<agentPc, agentIn, agentOut, agentCalls, agentConfigs, agentErrors, agentMsgs,
               agentIssued, callsMade, uuidsMade>>
ttsTaskVars == <<ttsProd, ttsProdFailed, buffer, ttsSendLog, ttsCloseCalls, ttsPushedUp>>
ttsVendorVars == <<ttsCons, ttsEmitted, ttsPushedAudio>>
outVars == <<ttsGen, ttsOut, wsSent, flushPc>>

vars == <<wsVars, sttTaskVars, sttVendorVars, sttGen, sttPass, agentVars,
          ttsTaskVars, ttsVendorVars, ttsPass, outVars, crashed>>

\* The upgradeWebSocket callback has run: the three generators are chained,
\* flushPromise has pulled outputEventStream, which started the ttsStream
\* tasks, which pulled agentStream, which pulled sttStream and started its
\* tasks.  Every task waits for its first input.
Init ==
    /\ limits \in Scenarios
    /\ sessions = SessionsNew
    /\ orderState = MapNew /\ toolCall = NoCall /\ toolResult = NoResult
    /\ toolCaller = NoCaller
    /\ task = NoTask /\ agentType = "none"
    /\ transform = TransformNew(Undefined)
    /\ wsState = "connecting" /\ currentSocket = FALSE /\ framesIn = 0 /\ frameLog = <<>>
    /\ inputStream = QNew /\ inputPushed = <<>> /\ queuedAtCancel = -1
    /\ sttProd = "reading" /\ sttProdFailed = FALSE /\ sttSawEnd = FALSE
    /\ sttCons = "reading" /\ sttGen = "running" /\ sttPass = QNew
    /\ sttSendLog = <<>> /\ sttCloseCalls = 0 /\ sttEmitted = 0 /\ sttPushed = <<>>
    /\ agentPc = "idle" /\ agentIn = <<>> /\ agentOut = <<>> /\ agentCalls = <<>>
    /\ agentConfigs = <<>> /\ agentErrors = 0 /\ agentMsgs = 0 /\ agentIssued = <<>>
    /\ callsMade = 0 /\ uuidsMade = 0
    /\ ttsProd = "reading" /\ ttsProdFailed = FALSE /\ ttsCons = "reading"
    /\ ttsGen = "running" /\ ttsPass = QNew /\ buffer = <<>>
    /\ ttsSendLog = <<>> /\ ttsCloseCalls = 0 /\ ttsEmitted = 0
    /\ ttsPushedUp = <<>> /\ ttsPushedAudio = <<>>
    /\ ttsOut = <<>> /\ wsSent = <<>> /\ flushPc = "running"
    /\ crashed = FALSE

\* -------------------------------------------------- unhandled rejections
\* A task's promise that rejects with no handler attached is an unhandled
\* rejection: the runtime either ends the process or only warns, by its
\* configuration.  The values crashed may take when a task rejects.
RejectionOutcomes(handled) == IF handled THEN {FALSE} ELSE {FALSE, TRUE}

\* Promise.all([producer, consumer]) has settled: it rejects as soon as one
\* task has rejected and resolves once both have completed.
PromiseAllSettled(producer, consumer) ==
    \/ producer = "rejected"
    \/ consumer = "rejected"
    \/ producer = "done" /\ consumer = "done"

PromiseAllRejected(producer, consumer) ==
    producer = "rejected" \/ consumer = "rejected"

\* ------------------------------------------------------------- scheduling
\* The process has one thread.  A continuation that is ready to run (a
\* for-await loop whose queue holds an item or has ended, an await whose
\* promise has settled) is a microtask: it runs before the event loop
\* delivers the next I/O event (a socket callback, a vendor call returning,
\* a vendor event, an agent message).
CanSttProducerRead == sttProd = "reading" /\ QNext(inputStream).kind # "wait"

\* A faulty variant of CanAgentPull: the next event is taken while a turn is
\* still being processed.
CanAgentPullWhileBusy ==
    /\ agentPc \in {"idle", "streaming"} /\ ttsProd = "reading" /\ sttGen = "running"
    /\ QNext(sttPass).kind # "wait"

CanAgentPull ==
    /\ agentPc = "idle" /\ ttsProd = "reading" /\ sttGen = "running"
    /\ QNext(sttPass).kind # "wait"

CanSttGenFinally == sttGen = "finally" /\ PromiseAllSettled(sttProd, sttCons)

CanFlushPull ==
    /\ flushPc = "running" /\ ttsGen = "running"
    /\ \/ QNext(ttsPass).kind = "item"
       \/ QNext(ttsPass).kind = "end" /\ PromiseAllSettled(ttsProd, ttsCons)

MicrotaskReady ==
    CanSttProducerRead \/ CanAgentPull \/ CanSttGenFinally \/ CanFlushPull

\* The event loop may deliver an I/O event.
EventLoopIdle == ~crashed /\ ~MicrotaskReady

\* ----------------------------------------------------------- the transport
FrameKinds == {"Buffer", "ArrayBuffer", "string"}

\* onOpen(_, ws)
onOpen ==
    /\ EventLoopIdle /\ wsState = "connecting"
    /\ wsState' = "open"
    /\ currentSocket' = TRUE
    /\ UNCHANGED <<envVars, framesIn, frameLog, inputStream, inputPushed, queuedAtCancel>>
    /\ UNCHANGED <<sttTaskVars, sttVendorVars, sttGen, sttPass, agentVars,
                   ttsTaskVars, ttsVendorVars, ttsPass, outVars, crashed>>

\* A faulty variant of onMessage: every frame is pushed, whatever its type.
onMessagePushesAll(kind) ==
    /\ EventLoopIdle /\ wsState = "open" /\ framesIn < limits.frames
    /\ framesIn' = framesIn + 1
    /\ frameLog' = Append(frameLog, kind)
    /\ inputStream' = QPush(inputStream, framesIn + 1)
    /\ inputPushed' = Append(inputPushed, framesIn + 1)
    /\ UNCHANGED <<envVars, wsState, currentSocket, queuedAtCancel>>
    /\ UNCHANGED <<sttTaskVars, sttVendorVars, sttGen, sttPass, agentVars,
                   ttsTaskVars, ttsVendorVars, ttsPass, outVars, crashed>>

\* onMessage(event): the frame's bytes are identified by the frame's number.
onMessage(kind) ==
    /\ EventLoopIdle /\ wsState = "open" /\ framesIn < limits.frames
    /\ framesIn' = framesIn + 1
    /\ frameLog' = Append(frameLog, kind)
    /\ IF kind \in {"Buffer", "ArrayBuffer"}
       THEN /\ inputStream' = QPush(inputStream, framesIn + 1)
            /\ inputPushed' = Append(inputPushed, framesIn + 1)
       ELSE UNCHANGED <<inputStream, inputPushed>>
    /\ UNCHANGED <<envVars, wsState, currentSocket, queuedAtCancel>>
    /\ UNCHANGED <<sttTaskVars, sttVendorVars, sttGen, sttPass, agentVars,
                   ttsTaskVars, ttsVendorVars, ttsPass, outVars, crashed>>

\* onClose(): inputStream.cancel(), then await flushPromise.
onClose ==
    /\ EventLoopIdle /\ wsState = "open"
    /\ wsState' = "closed"
    /\ inputStream' = QCancel(inputStream)
    /\ queuedAtCancel' = Len(inputStream.items)
    /\ UNCHANGED <<envVars, currentSocket, framesIn, frameLog, inputPushed>>
    /\ UNCHANGED <<sttTaskVars, sttVendorVars, sttGen, sttPass, agentVars,
                   ttsTaskVars, ttsVendorVars, ttsPass, outVars, crashed>>

\* onClose has returned: its await flushPromise resolved.
onCloseReturned == wsState = "closed" /\ flushPc = "done"

\* --------------------------------------------------------------- sttStream
\* Producer: for await (const audioChunk of audioStream) -> stt.sendAudio;
\* on end-of-stream the finally block calls stt.close().
SttProducerRead ==
    /\ ~crashed /\ CanSttProducerRead
    /\ LET n == QNext(inputStream) IN
       /\ IF n.kind = "item"
          THEN /\ inputStream' = n.rest
               /\ sttSendLog' = Append(sttSendLog, Head(inputStream.items))
               /\ sttProd' = "sending"
               /\ UNCHANGED <<sttSawEnd, sttCloseCalls>>
          ELSE /\ sttSawEnd' = TRUE
               /\ sttProd' = "closing"
               /\ sttCloseCalls' = sttCloseCalls + 1
               /\ UNCHANGED <<inputStream, sttSendLog>>
    /\ UNCHANGED <<envVars, wsState, currentSocket, framesIn, frameLog, inputPushed,
                   queuedAtCancel>>
    /\ UNCHANGED <<sttProdFailed, sttVendorVars, sttGen, sttPass, agentVars,
                   ttsTaskVars, ttsVendorVars, ttsPass, outVars, crashed>>

\* A faulty variant of SttSendReturns: a failed call is answered by
\* stt.close() inside the loop, and the producer reads on.
SttSendReturnsClosesInLoop(ok) ==
    /\ EventLoopIdle /\ sttProd = "sending"
    /\ sttProd' = "reading"
    /\ IF ok
       THEN UNCHANGED <<sttProdFailed, sttCloseCalls>>
       ELSE /\ sttProdFailed' = TRUE
            /\ sttCloseCalls' = sttCloseCalls + 1
    /\ UNCHANGED <<wsVars, sttSawEnd, sttSendLog, sttVendorVars, sttGen, sttPass,
                   agentVars, ttsTaskVars, ttsVendorVars, ttsPass, outVars, crashed>>

\* A faulty variant of SttSendReturns: the producer goes on with what arrives
\* from now on, and the chunks that arrived during the call are dropped.
SttSendReturnsDropsQueued(ok) ==
    /\ EventLoopIdle /\ sttProd = "sending"
    /\ IF ok
       THEN /\ sttProd' = "reading"
            /\ UNCHANGED <<sttProdFailed, sttCloseCalls>>
       ELSE /\ sttProdFailed' = TRUE
            /\ sttProd' = "closing"
            /\ sttCloseCalls' = sttCloseCalls + 1
    /\ inputStream' = [inputStream EXCEPT !.items = <<>>]
    /\ UNCHANGED <<envVars, wsState, currentSocket, framesIn, frameLog, inputPushed,
                   queuedAtCancel>>
    /\ UNCHANGED <<sttSawEnd, sttSendLog, sttVendorVars, sttGen, sttPass,
                   agentVars, ttsTaskVars, ttsVendorVars, ttsPass, outVars, crashed>>

\* await stt.sendAudio(audioChunk) returns, or throws: the loop is left and
\* the finally block calls stt.close().
SttSendReturns(ok) ==
    /\ EventLoopIdle /\ sttProd = "sending"
    /\ IF ok
       THEN /\ sttProd' = "reading"
            /\ UNCHANGED <<sttProdFailed, sttCloseCalls>>
       ELSE /\ sttProdFailed' = TRUE
            /\ sttProd' = "closing"
            /\ sttCloseCalls' = sttCloseCalls + 1
    /\ UNCHANGED <<wsVars, sttSawEnd, sttSendLog, sttVendorVars, sttGen, sttPass,
                   agentVars, ttsTaskVars, ttsVendorVars, ttsPass, outVars, crashed>>

\* await stt.close() returns: the producer's promise resolves, or rejects
\* with the error of the try block.  The rejection is handled only if the
\* generator already awaits Promise.all in its finally block.
SttCloseReturns ==
    /\ EventLoopIdle /\ sttProd = "closing"
    /\ IF sttProdFailed
       THEN /\ sttProd' = "rejected"
            /\ crashed' \in RejectionOutcomes(sttGen = "finally")
       ELSE /\ sttProd' = "done"
            /\ crashed' = FALSE
    /\ UNCHANGED <<wsVars, sttProdFailed, sttSawEnd, sttSendLog, sttCloseCalls,
                   sttVendorVars, sttGen, sttPass, agentVars, ttsTaskVars,
                   ttsVendorVars, ttsPass, outVars>>

\* Consumer: for await (const event of stt.receiveEvents()) passthrough.push.
\* The recognizer transcribes audio it was sent.
SttVendorEmits(event) ==
    /\ EventLoopIdle /\ sttCons = "reading"
    /\ sttSendLog # <<>> /\ sttEmitted < limits.sttEvents
    /\ sttEmitted' = sttEmitted + 1
    /\ sttPass' = QPush(sttPass, event)
    /\ sttPushed' = Append(sttPushed, event)
    /\ UNCHANGED <<wsVars, sttTaskVars, sttCons, sttGen, agentVars, ttsTaskVars,
                   ttsVendorVars, ttsPass, outVars, crashed>>

\* The recognizer's event sequence ends, after close(): the consumer is done.
SttVendorEnds ==
    /\ EventLoopIdle /\ sttCons = "reading" /\ sttCloseCalls > 0
    /\ sttCons' = "done"
    /\ UNCHANGED <<wsVars, sttTaskVars, sttEmitted, sttPushed, sttGen, sttPass, agentVars,
                   ttsTaskVars, ttsVendorVars, ttsPass, outVars, crashed>>

\* ------------------------------------------------------------- agentStream
\* A faulty variant of AgentPassThrough: only final transcripts are re-emitted.
AgentPassThroughFinalOnly(event) ==
    IF event.type = "stt_output" THEN <<event>> ELSE <<>>

\* yield event (the upstream event, re-emitted first).
AgentPassThrough(event) == <<event>>

\* A faulty variant of GreetingEvents: agent_end comes before the reply.
GreetingEventsEndFirst == <<AgentEnd, AgentChunk(GreetingReply)>>

\* The greeting fast path: one agent_chunk, then agent_end.
GreetingEvents == <<AgentChunk(GreetingReply), AgentEnd>>

\* The agent_end that follows the end of the agent's stream.
StreamEndEvents == <<AgentEnd>>

\* A faulty variant of CatchEvents: the catch block only logs.
CatchEventsNone == <<>>

\* The agent_end of the catch block.
CatchEvents == <<AgentEnd>>

\* The texts of the agent_chunk events among evs, in order.
ChunkTexts(evs) ==
    LET chunks == SelectSeq(evs, LAMBDA e : e.type = "agent_chunk")
    IN  [i \in 1..Len(chunks) |-> chunks[i].text]

\* A faulty variant of EndsTurn: a turn without text is not sent.
EndsTurnWithText(evs) ==
    /\ evs # <<>> /\ evs[Len(evs)].type = "agent_end"
    /\ buffer # <<>> \/ \E i \in 1..Len(evs) : evs[i].type = "agent_chunk"

\* event.type === "agent_end": evs ends a turn.
EndsTurn(evs) == evs # <<>> /\ evs[Len(evs)].type = "agent_end"

\* A faulty variant of TtsPassThrough: agent_end is kept back.
TtsPassThroughNoEnd(q, evs) ==
    QPushAll(q, SelectSeq(evs, LAMBDA e : e.type # "agent_end"))

\* passthrough.push(event) of the ttsStream producer.
TtsPassThrough(q, evs) == QPushAll(q, evs)

\* A faulty variant of ResetBuffer: the buffer keeps its texts.
KeepBuffer == buffer

\* buffer = [] after tts.sendText returned.
ResetBuffer == <<>>

\* A faulty variant of Yield: tts.sendText is called and not awaited, so the
\* producer asks agentStream for its next event while the call is pending.
YieldWithoutAwait(evs, pcNext) ==
    /\ agentOut' = agentOut \o evs
    /\ ttsPass' = TtsPassThrough(ttsPass, evs)
    /\ ttsPushedUp' = ttsPushedUp \o evs
    /\ buffer' = buffer \o ChunkTexts(evs)
    /\ IF EndsTurn(evs)
       THEN /\ ttsSendLog' = Append(ttsSendLog, Join(buffer \o ChunkTexts(evs)))
            /\ ttsProd' = "sending"
            /\ agentPc' = pcNext
       ELSE /\ agentPc' = pcNext
            /\ UNCHANGED <<ttsSendLog, ttsProd>>
    /\ UNCHANGED <<ttsProdFailed, ttsCloseCalls>>

\* agentStream yields evs, one after the other, to the ttsStream producer,
\* which pushes each into its passthrough, buffers the text of an
\* agent_chunk and, on agent_end, calls tts.sendText(buffer.join("")) and
\* awaits it: until it returns agentStream stays suspended at its yield.
\* Otherwise agentStream goes on to pcNext.
Yield(evs, pcNext) ==
    /\ agentOut' = agentOut \o evs
    /\ ttsPass' = TtsPassThrough(ttsPass, evs)
    /\ ttsPushedUp' = ttsPushedUp \o evs
    /\ buffer' = buffer \o ChunkTexts(evs)
    /\ IF EndsTurn(evs)
       THEN /\ ttsSendLog' = Append(ttsSendLog, Join(buffer \o ChunkTexts(evs)))
            /\ ttsProd' = "sending"
            /\ agentPc' = "atYield"
       ELSE /\ agentPc' = pcNext
            /\ UNCHANGED <<ttsSendLog, ttsProd>>
    /\ UNCHANGED <<ttsProdFailed, ttsCloseCalls>>

\* agentStream runs only while the ttsStream producer waits in next().
AgentRuns == EventLoopIdle /\ ttsProd = "reading"

\* const threadId = uuidv4(): the thread identifier agentStream creates.
threadId == Uuid(0)

\* The options agent.stream is called with: { streamMode: "messages" }, and
\* so no thread identifier.
AgentStreamConfig == [streamMode |-> "messages", thread_id |-> Undefined]

\* The values the agent may throw: one that JSON.stringify serialises, and
\* one it cannot serialise (an object that refers to itself).
AgentErrorValues == {"plain", "circular"}

\* JSON.stringify(error, null, 2) throws a TypeError.
JSON_stringify_throws(error) == error = "circular"

\* catch (error): the two console.error calls, then yield agent_end.  When
\* JSON.stringify throws, the exception leaves the catch block and
\* agentStream before the yield: the for-await of agentStream closes
\* sttStream (return()), which runs its finally block, and the ttsStream
\* producer, waiting in next(), gets the exception after that.
Catch(error) ==
    /\ agentErrors' = agentErrors + 1
    /\ IF JSON_stringify_throws(error)
       THEN /\ agentPc' = "throwing"
            /\ sttGen' = "finally"
            /\ UNCHANGED <<agentOut, ttsTaskVars, ttsPass>>
       ELSE /\ Yield(CatchEvents, "idle")
            /\ UNCHANGED sttGen

\* for await (const event of eventStream): the next event of sttStream, which
\* is the next item of sttStream's passthrough (yield*).  A final transcript
\* starts a turn: the greeting fast path, or a call of agent.stream.
AgentPull ==
    /\ ~crashed /\ CanAgentPull
    /\ LET n == QNext(sttPass) IN
       /\ IF n.kind = "item"
          THEN LET event == Head(sttPass.items) IN
               /\ sttPass' = n.rest
               /\ agentIn' = Append(agentIn, event)
               /\ IF event.type # "stt_output"
                  THEN /\ Yield(AgentPassThrough(event), "idle")
                       /\ UNCHANGED <<agentCalls, agentConfigs, agentMsgs, agentIssued>>
                  ELSE IF greetingPattern_test(event.text)
                  THEN /\ Yield(AgentPassThrough(event) \o GreetingEvents, "idle")
                       /\ UNCHANGED <<agentCalls, agentConfigs, agentMsgs, agentIssued>>
                  ELSE /\ Yield(AgentPassThrough(event), "creating")
                       /\ agentCalls' = Append(agentCalls, event.text)
                       /\ agentConfigs' = Append(agentConfigs, AgentStreamConfig)
                       /\ agentIssued' = <<>>
                       /\ UNCHANGED agentMsgs
               /\ UNCHANGED sttGen
          ELSE \* the passthrough ended: sttStream enters its finally block
               /\ sttGen' = "finally"
               /\ agentPc' = "awaitingEnd"
               /\ UNCHANGED <<sttPass, agentIn, agentOut, agentCalls, agentConfigs, agentMsgs,
                              agentIssued, ttsTaskVars, ttsPass>>
    /\ UNCHANGED <<wsVars, sttTaskVars, sttVendorVars, agentErrors, callsMade,
                   uuidsMade, ttsVendorVars, outVars, crashed>>

\* await agent.stream(...) returns the stream, or throws into the catch block.
AgentStreamCreated(ok) ==
    /\ AgentRuns /\ agentPc = "creating"
    /\ IF ok
       THEN /\ agentPc' = "streaming"
            /\ UNCHANGED <<agentOut, agentErrors, sttGen, ttsTaskVars, ttsPass>>
       ELSE \E error \in AgentErrorValues : Catch(error)
    /\ UNCHANGED <<wsVars, sttTaskVars, sttVendorVars, sttPass, agentIn,
                   agentCalls, agentConfigs, agentMsgs, agentIssued, callsMade, uuidsMade,
                   ttsVendorVars, outVars, crashed>>

\* The messages the agent may stream next.  tool_calls holds the id of each
\* tool call, Undefined when the collaborator supplied none; a ToolMessage
\* answers the oldest tool call of the turn that has no result yet, with
\* that call's id or with none.
AIMessage(text, tool_calls) ==
    [kind |-> "AIMessage", text |-> text, tool_calls |-> tool_calls, tool_call_id |-> Undefined]
ToolMessage(tool_call_id) ==
    [kind |-> "ToolMessage", text |-> <<>>, tool_calls |-> <<>>, tool_call_id |-> tool_call_id]
HumanMessageEcho ==
    [kind |-> "HumanMessage", text |-> <<>>, tool_calls |-> <<>>, tool_call_id |-> Undefined]

AgentMessages ==
    LET fresh == CallId(callsMade + 1) IN
       {AIMessage(<<"a">>, <<>>), AIMessage(<<>>, <<>>),
        AIMessage(<<"b">>, <<fresh, Undefined>>)}
    \cup (IF agentIssued = <<>> THEN {}
          ELSE {ToolMessage(Head(agentIssued)), ToolMessage(Undefined)})
    \cup {HumanMessageEcho}

\* Number of tool calls among the first i that carry no id.
RECURSIVE Missing(_, _)
Missing(tool_calls, i) ==
    IF i = 0 THEN 0
    ELSE Missing(tool_calls, i - 1) + (IF tool_calls[i] = Undefined THEN 1 ELSE 0)

\* message.tool_call_id ?? ""
ToolResultId(tool_call_id) ==
    IF tool_call_id = Undefined THEN NoId ELSE tool_call_id

\* A faulty variant of ToolCallId: every missing id gets the same value.
ToolCallIdFixed(tool_calls, i) ==
    IF tool_calls[i] = Undefined THEN Uuid(1) ELSE tool_calls[i]

\* toolCall.id ?? uuidv4(), for the i-th tool call of a message
ToolCallId(tool_calls, i) ==
    IF tool_calls[i] = Undefined
    THEN Uuid(uuidsMade + Missing(tool_calls, i))
    ELSE tool_calls[i]

\* The events one message of the stream is turned into.
MessageEvents(m) ==
    IF m.kind = "AIMessage"
    THEN (IF m.text # <<>> THEN <<AgentChunk(m.text)>> ELSE <<>>)
         \o [i \in 1..Len(m.tool_calls) |-> ToolCall(ToolCallId(m.tool_calls, i))]
    ELSE IF m.kind = "ToolMessage"
    THEN <<ToolResult(ToolResultId(m.tool_call_id))>>
    ELSE <<>>

\* for await (const [message] of stream): one message.
AgentMessage(m) ==
    /\ AgentRuns /\ agentPc = "streaming" /\ agentMsgs < limits.agentMsgs
    /\ agentMsgs' = agentMsgs + 1
    /\ Yield(MessageEvents(m), "streaming")
    /\ agentIssued' = IF m.kind = "ToolMessage" THEN Tail(agentIssued)
                      ELSE agentIssued \o m.tool_calls
    /\ callsMade' = callsMade + Len(m.tool_calls) - Missing(m.tool_calls, Len(m.tool_calls))
    /\ uuidsMade' = uuidsMade + Missing(m.tool_calls, Len(m.tool_calls))
    /\ UNCHANGED <<wsVars, sttTaskVars, sttVendorVars, sttGen, sttPass, agentIn,
                   agentCalls, agentConfigs, agentErrors, ttsVendorVars, outVars, crashed>>

\* The stream ends: agent_end.
AgentStreamEnds ==
    /\ AgentRuns /\ agentPc = "streaming"
    /\ Yield(StreamEndEvents, "idle")
    /\ UNCHANGED <<wsVars, sttTaskVars, sttVendorVars, sttGen, sttPass, agentIn,
                   agentCalls, agentConfigs, agentErrors, agentMsgs, agentIssued, callsMade,
                   uuidsMade, ttsVendorVars, outVars, crashed>>

\* Reading the stream throws: the catch block.
AgentStreamThrows ==
    /\ AgentRuns /\ agentPc = "streaming"
    /\ \E error \in AgentErrorValues : Catch(error)
    /\ UNCHANGED <<wsVars, sttTaskVars, sttVendorVars, sttPass, agentIn,
                   agentCalls, agentConfigs, agentMsgs, agentIssued, callsMade, uuidsMade,
                   ttsVendorVars, outVars, crashed>>

\* --------------------------------------------------------------- ttsStream
\* await tts.sendText(text) returns: buffer = [] and the producer asks
\* agentStream for its next event, which resumes agentStream after its
\* yield of agent_end.  Or it throws: the for-await loop is left, which
\* closes agentEventStream (agentStream.return()); agentStream, suspended in
\* its own for-await, closes sttStream the same way, and sttStream, suspended
\* at yield*, runs its finally block.  The producer's finally block waits
\* for all that.
TtsSendReturns(ok) ==
    /\ EventLoopIdle /\ ttsProd = "sending"
    /\ IF ok
       THEN /\ buffer' = ResetBuffer
            /\ ttsProd' = "reading"
            /\ agentPc' = "idle"
            /\ UNCHANGED <<ttsProdFailed, sttGen>>
       ELSE /\ ttsProdFailed' = TRUE
            /\ ttsProd' = "unwinding"
            /\ agentPc' = "returning"
            /\ sttGen' = "finally"
            /\ UNCHANGED buffer
    /\ UNCHANGED <<wsVars, sttTaskVars, sttVendorVars, sttPass, agentIn, agentOut,
                   agentCalls, agentConfigs, agentErrors, agentMsgs, agentIssued, callsMade,
                   uuidsMade, ttsSendLog, ttsCloseCalls, ttsPushedUp,
                   ttsVendorVars, ttsPass, outVars, crashed>>

\* A faulty variant of SttGenFinally: the producer's finally block sends what
\* the buffer holds before it calls tts.close().
SttGenFinallyFlushes ==
    /\ ~crashed /\ CanSttGenFinally
    /\ sttGen' = "done"
    /\ agentPc' = "done"
    /\ ttsProd' = "closing"
    /\ ttsCloseCalls' = ttsCloseCalls + 1
    /\ ttsSendLog' = IF buffer # <<>> THEN Append(ttsSendLog, Join(buffer)) ELSE ttsSendLog
    /\ ttsProdFailed' = (\/ ttsProdFailed
                         \/ PromiseAllRejected(sttProd, sttCons)
                         \/ agentPc = "throwing")
    /\ UNCHANGED <<wsVars, sttTaskVars, sttVendorVars, sttPass, agentIn, agentOut,
                   agentCalls, agentConfigs, agentErrors, agentMsgs, agentIssued, callsMade,
                   uuidsMade, buffer, ttsPushedUp, ttsVendorVars,
                   ttsPass, outVars, crashed>>

\* sttStream's finally block: await Promise.all([producer, consumer]) has
\* settled and sttStream completes.  agentStream completes with it, the
\* ttsStream producer's loop is over and its finally block calls
\* tts.close().  A rejection of Promise.all reaches the producer as an error
\* when the loop was not being left already.
SttGenFinally ==
    /\ ~crashed /\ CanSttGenFinally
    /\ sttGen' = "done"
    /\ agentPc' = "done"
    /\ ttsProd' = "closing"
    /\ ttsCloseCalls' = ttsCloseCalls + 1
    /\ ttsProdFailed' = (\/ ttsProdFailed
                         \/ PromiseAllRejected(sttProd, sttCons)
                         \/ agentPc = "throwing")
    /\ UNCHANGED <<wsVars, sttTaskVars, sttVendorVars, sttPass, agentIn, agentOut,
                   agentCalls, agentConfigs, agentErrors, agentMsgs, agentIssued, callsMade,
                   uuidsMade, buffer, ttsSendLog, ttsPushedUp, ttsVendorVars,
                   ttsPass, outVars, crashed>>

\* await tts.close() returns: the producer's promise resolves, or rejects
\* with the error of the try block; ttsStream attaches a handler only in its
\* finally block, after its passthrough has ended.
TtsCloseReturns ==
    /\ EventLoopIdle /\ ttsProd = "closing"
    /\ IF ttsProdFailed
       THEN /\ ttsProd' = "rejected"
            /\ crashed' \in RejectionOutcomes(QNext(ttsPass).kind = "end")
       ELSE /\ ttsProd' = "done"
            /\ crashed' = FALSE
    /\ UNCHANGED <<wsVars, sttTaskVars, sttVendorVars, sttGen, sttPass, agentVars,
                   ttsProdFailed, buffer, ttsSendLog, ttsCloseCalls, ttsPushedUp,
                   ttsVendorVars, ttsPass, outVars>>

\* Consumer: for await (const event of tts.receiveEvents()) passthrough.push.
\* The synthesizer speaks text it was sent.
TtsVendorEmits ==
    /\ EventLoopIdle /\ ttsCons = "reading"
    /\ ttsSendLog # <<>> /\ ttsEmitted < limits.audio
    /\ ttsEmitted' = ttsEmitted + 1
    /\ ttsPass' = QPush(ttsPass, TtsChunk(ttsEmitted + 1))
    /\ ttsPushedAudio' = Append(ttsPushedAudio, TtsChunk(ttsEmitted + 1))
    /\ UNCHANGED <<wsVars, sttTaskVars, sttVendorVars, sttGen, sttPass, agentVars,
                   ttsTaskVars, ttsCons, outVars, crashed>>

\* The synthesizer's event sequence ends, after close(): the consumer is done.
TtsVendorEnds ==
    /\ EventLoopIdle /\ ttsCons = "reading" /\ ttsCloseCalls > 0
    /\ ttsCons' = "done"
    /\ UNCHANGED <<wsVars, sttTaskVars, sttVendorVars, sttGen, sttPass, agentVars,
                   ttsTaskVars, ttsEmitted, ttsPushedAudio, ttsPass, outVars, crashed>>

\* ------------------------------------------------------------ flushPromise
\* A faulty variant of JSON_stringify: only the type is written.
JSON_stringify_type(event) == <<"json", event.type, <<>>, NoId>>

\* JSON.stringify(event): the event's fields as one text frame.
JSON_stringify(event) == <<"json", event.type, event.text, event.id>>

\* for await (const event of outputEventStream): the next item of ttsStream's
\* passthrough (yield*) is written to the socket, if there is one.  Once the
\* passthrough has ended and Promise.all of ttsStream's finally block has
\* settled, ttsStream and the loop are over.
FlushPull ==
    /\ ~crashed /\ CanFlushPull
    /\ LET n == QNext(ttsPass) IN
       /\ IF n.kind = "item"
          THEN /\ ttsPass' = n.rest
               /\ ttsOut' = Append(ttsOut, Head(ttsPass.items))
               /\ wsSent' = IF currentSocket
                            THEN Append(wsSent, JSON_stringify(Head(ttsPass.items)))
                            ELSE wsSent
               /\ UNCHANGED <<ttsGen, flushPc>>
          ELSE /\ ttsGen' = "done"
               /\ flushPc' = "done"
               /\ UNCHANGED <<ttsPass, ttsOut, wsSent>>
    /\ UNCHANGED <<wsVars, sttTaskVars, sttVendorVars, sttGen, sttPass, agentVars,
                   ttsTaskVars, ttsVendorVars, crashed>>

\* ------------------------------------------------------------ specification
Next ==
    \/ onOpen
    \/ \E kind \in FrameKinds : onMessage(kind)
    \/ onClose
    \/ SttProducerRead
    \/ \E ok \in BOOLEAN : SttSendReturns(ok)
    \/ SttCloseReturns
    \/ \E event \in SttEvents : SttVendorEmits(event)
    \/ SttVendorEnds
    \/ AgentPull
    \/ \E ok \in BOOLEAN : AgentStreamCreated(ok)
    \/ \E m \in AgentMessages : AgentMessage(m)
    \/ AgentStreamEnds
    \/ AgentStreamThrows
    \/ \E ok \in BOOLEAN : TtsSendReturns(ok)
    \/ SttGenFinally
    \/ TtsCloseReturns
    \/ TtsVendorEmits
    \/ TtsVendorEnds
    \/ FlushPull

Spec == Init /\ [][Next]_vars

\* --------------------------------------------------- sessions side by side
\* Several sessions in outline: what each session's handlers and generators
\* do with the objects they reach, one turn at a step.  A vendor call returns
\* at once and the agent answers a transcript with one text.
sessionVars ==
    <<limits, wsState, currentSocket, framesIn, frameLog, inputStream, inputPushed,
      queuedAtCancel, sttTaskVars, sttVendorVars, sttGen, sttPass, agentVars,
      ttsTaskVars, ttsVendorVars, ttsPass, outVars, crashed>>
pipelineVars == <<sessionVars, utilVars>>

\* A faulty variant of ClosureOf: currentSocket, inputStream and the
\* generators are created once, at module level, and every session uses them.
ClosureShared(s) == 1

\* The objects the handlers and generators of session s reach: those its own
\* call of the upgradeWebSocket callback created (currentSocket, inputStream)
\* and, through the generators, its own stt and tts.
ClosureOf(s) == s

Input(kind, data) == [kind |-> kind, data |-> data]

InputsOfKind(s, kinds) == SelectSeq(sessions.inputs[s], LAMBDA x : x.kind \in kinds)

\* The answers the agent may give to a transcript.
AgentReplies == { <<"a">>, <<"b">> }

\* The events of one turn: the final transcript, then the greeting reply or
\* the agent's answer, then agent_end.
TurnEvents(transcript, reply) ==
    AgentPassThrough(SttOutput(transcript))
    \o (IF greetingPattern_test(transcript)
        THEN GreetingEvents
        ELSE MessageEvents(AIMessage(reply, <<>>)) \o StreamEndEvents)

\* currentSocket?.send(JSON.stringify(event)) for each event, on the socket
\* the session's currentSocket holds (0: none).
SendAll(sent, socket, evs) ==
    IF socket = 0 THEN sent
    ELSE [sent EXCEPT ![socket] = @ \o [i \in 1..Len(evs) |-> JSON_stringify(evs[i])]]

\* onOpen(_, ws) of session s.
SessionOpen(s) ==
    /\ sessions.inputs[s] = <<>>
    /\ sessions' = [sessions EXCEPT !.currentSocket[ClosureOf(s)] = s,
                                    !.inputs[s] = Append(@, Input("open", s))]
    /\ UNCHANGED pipelineVars

\* onMessage(event) of session s, for its n-th frame.
SessionMessage(s, kind) ==
    /\ InputsOfKind(s, {"open"}) # <<>> /\ InputsOfKind(s, {"close"}) = <<>>
    /\ Len(InputsOfKind(s, {"frame", "text"})) < MaxSessionFrames
    /\ LET n == Len(InputsOfKind(s, {"frame", "text"})) + 1 IN
       IF kind \in {"Buffer", "ArrayBuffer"}
       THEN sessions' =
               [sessions EXCEPT !.inputStream[ClosureOf(s)] = QPush(@, <<s, n>>),
                                !.inputs[s] = Append(@, Input("frame", <<s, n>>))]
       ELSE sessions' = [sessions EXCEPT !.inputs[s] = Append(@, Input("text", <<s, n>>))]
    /\ UNCHANGED pipelineVars

\* onClose() of session s: inputStream.cancel().
SessionClose(s) ==
    /\ InputsOfKind(s, {"open"}) # <<>> /\ InputsOfKind(s, {"close"}) = <<>>
    /\ sessions' = [sessions EXCEPT !.inputStream[ClosureOf(s)] = QCancel(@),
                                    !.inputs[s] = Append(@, Input("close", s))]
    /\ UNCHANGED pipelineVars

\* The sttStream producer of session s takes the next frame of its
\* inputStream and calls stt.sendAudio, or at the end stt.close().
SessionSttProducer(s) ==
    /\ LET c == ClosureOf(s)
           n == QNext(sessions.inputStream[c])
       IN  /\ n.kind # "wait"
           /\ IF sessions.sttSent[c] = <<>> THEN TRUE
              ELSE sessions.sttSent[c][Len(sessions.sttSent[c])] # <<"close">>
           /\ sessions' =
                 [sessions EXCEPT
                    !.inputStream[c] = n.rest,
                    !.sttSent[c] =
                        IF n.kind = "item"
                        THEN Append(@, Head(sessions.inputStream[c].items))
                        ELSE Append(@, <<"close">>)]
    /\ UNCHANGED pipelineVars

\* The recognizer of session s emits a final transcript, and the agent
\* answers it: the events go through agentStream and ttsStream, the text to
\* tts.sendText and the events to the socket.
SessionTurn(s, transcript, reply) ==
    /\ sessions.sttSent[s] # <<>>
    /\ Len(InputsOfKind(s, {"final"})) < MaxSessionTurns
    /\ LET c == ClosureOf(s)
           evs == TurnEvents(transcript, reply)
       IN  sessions' =
              [sessions EXCEPT
                 !.ttsSent[c] = Append(@, Join(ChunkTexts(evs))),
                 !.wsSent = SendAll(@, sessions.currentSocket[c], evs),
                 !.inputs[s] = Append(@, Input("final", <<transcript, reply>>))]
    /\ UNCHANGED pipelineVars

\* The synthesizer of session s emits an audio chunk: ttsStream yields it
\* and it goes to the socket.
SessionAudio(s) ==
    /\ sessions.ttsSent[s] # <<>>
    /\ Len(InputsOfKind(s, {"audio"})) < MaxSessionAudio
    /\ LET c == ClosureOf(s)
           n == Len(InputsOfKind(s, {"audio"})) + 1
       IN  sessions' =
              [sessions EXCEPT
                 !.wsSent = SendAll(@, sessions.currentSocket[c], <<TtsChunk(n)>>),
                 !.inputs[s] = Append(@, Input("audio", n))]
    /\ UNCHANGED pipelineVars

SessionsInit == Init /\ limits.frames = MaxFrames

SessionsNext ==
    \/ \E s \in SessionIds : SessionOpen(s)
    \/ \E s \in SessionIds : \E kind \in FrameKinds : SessionMessage(s, kind)
    \/ \E s \in SessionIds : SessionClose(s)
    \/ \E s \in SessionIds : SessionSttProducer(s)
    \/ \E s \in SessionIds : \E transcript \in FinalTexts : \E reply \in AgentReplies :
          SessionTurn(s, transcript, reply)
    \/ \E s \in SessionIds : SessionAudio(s)

SpecSessions == SessionsInit /\ [][SessionsNext]_vars

\* -------------------------------------------------------------- order tools
\* agent/skills/order.ts: the five order tools on the module-level orderState.
\* A tool is called with arguments taken from small sets; an optional
\* argument that is left out is "undefined".
MaxOrderLines == 2   \* lines of one order
MaxQuantity == 2     \* pieces on one line
MaxStoreLines == 3   \* lines of all orders together

TurkeyClub == <<"T","u","r","k","e","y"," ","C","l","u","b">>
turkey_club == <<"t","u","r","k","e","y"," ","c","l","u","b">>
ClassicBLT == <<"C","l","a","s","s","i","c"," ","B","L","T">>
chips == <<"c","h","i","p","s">>
Pizza == <<"P","i","z","z","a">>

\* The add_to_order requests: <<item, quantity, size>>.
AddRequests ==
    { <<TurkeyClub, 1, "medium">>, <<turkey_club, 1, "medium">>,
      <<TurkeyClub, 1, "large">>, <<ClassicBLT, 1, "medium">>,
      <<chips, 1, "undefined">> }
RemoveRequests == { turkey_club, ClassicBLT, chips, Pizza }
CustomerArgs == { "undefined", "B" }
Reasons == { "undefined", "changed my mind" }

\* String.prototype.toLowerCase
toLowerCase(s) == [i \in 1..Len(s) |-> FoldChar(s[i])]

\* The default of the customerId parameter.
DefaultCustomer(customerId) == IF customerId = "undefined" THEN "default" ELSE customerId

\* The customers the tools are called for.
CustomerIds == { DefaultCustomer(c) : c \in CustomerArgs }

\* A faulty variant of OrderKey: the agent of every session but the first
\* keeps its orders under a key of its own.
OrderKeyPerSession(customerId) ==
    IF toolCaller'.last <= 1 THEN customerId ELSE "another session"

\* A faulty variant of OrderKey: every customer's order is kept under one key.
OrderKeyShared(customerId) == "default"

\* The key under which the tools look up and store the order of customerId.
OrderKey(customerId) == customerId

\* orderState.get(customerId), with the empty order standing for a missing one
\* where the code treats the two alike (!order || order.items.length === 0).
OrderOf(customerId) ==
    IF MapHas(orderState, OrderKey(customerId))
    THEN orderState[OrderKey(customerId)]
    ELSE [items |-> <<>>]

\* A faulty variant of SameLine: the item names are compared as written.
SameLineExact(i, item, size) == i.item = item /\ i.size = size

\* The predicate of addToOrder's findIndex.
SameLine(i, item, size) == toLowerCase(i.item) = toLowerCase(item) /\ i.size = size

\* A faulty variant of SameItem: every line matches.
SameItemAny(i, item) == TRUE

\* The predicate of removeFromOrder's findIndex.
SameItem(i, item) == toLowerCase(i.item) = toLowerCase(item)

\* A faulty variant of findIndex: the last position where the predicate holds.
findIndexLast(hits) == IF hits = {} THEN 0 ELSE CHOOSE k \in hits : \A j \in hits : k >= j

\* Array.prototype.findIndex over the positions `hits` where the predicate
\* holds: the first of them, or 0 where the code gets -1.
findIndex(hits) == IF hits = {} THEN 0 ELSE CHOOSE k \in hits : \A j \in hits : k <= j

\* Array.prototype.splice(itemIndex, 1)
splice(items, itemIndex) ==
    SubSeq(items, 1, itemIndex - 1) \o SubSeq(items, itemIndex + 1, Len(items))

\* `${quantity} ${size ? size + " " : ""}${item}${quantity > 1 ? "s" : ""}` as
\* its parts: the number, the size (empty when left out), the name, the plural.
LineText(quantity, size, item) ==
    [ quantity |-> quantity,
      size     |-> IF size \in {"undefined", ""} THEN "" ELSE size,
      item     |-> item,
      plural   |-> quantity > 1 ]

\* order.items.map(...).join(", ") as the sequence of its parts.
orderSummary(items) ==
    [k \in 1..Len(items) |-> LineText(items[k].quantity, items[k].size, items[k].item)]

\* The price confirmOrder charges for one piece of a line, in cents.
price(i) ==
    IF i.size = "large" THEN 1099
    ELSE IF i.size = "small" THEN 699
    ELSE 899

\* MENU_DATA of the menu tools, in cents: the sandwiches by size, the sides.
MENU_DATA ==
    [ sandwiches |->
        << [name |-> ClassicBLT, price |-> [small |-> 799, medium |-> 999, large |-> 1199]],
           [name |-> TurkeyClub, price |-> [small |-> 849, medium |-> 1049, large |-> 1249]] >>,
      sides |-> << [name |-> chips, price |-> 199] >> ]

\* order.items.reduce((sum, i) => sum + price * i.quantity, 0), in cents.
RECURSIVE estimatedTotal(_)
estimatedTotal(items) ==
    IF items = <<>> THEN 0
    ELSE estimatedTotal(SubSeq(items, 1, Len(items) - 1))
         + price(items[Len(items)]) * items[Len(items)].quantity

\* The number of lines the store holds, over all customers.
RECURSIVE StoreLines(_)
StoreLines(keys) ==
    IF keys = {} THEN 0
    ELSE LET k == CHOOSE x \in keys : TRUE
         IN  Len(orderState[k].items) + StoreLines(keys \ {k})

otherVars == <<sessionVars, sessions, classifyVars, transform>>

addToOrder(item, quantity, size, customerArg) ==
    LET customerId == DefaultCustomer(customerArg)
        order == OrderOf(customerId)
        existingItemIndex ==
            findIndex({k \in 1..Len(order.items) : SameLine(order.items[k], item, size)})
    IN  /\ IF existingItemIndex >= 1
           THEN order.items[existingItemIndex].quantity + quantity <= MaxQuantity
           ELSE /\ Len(order.items) < MaxOrderLines
                /\ StoreLines(DOMAIN orderState) < MaxStoreLines
        /\ toolCall' = [op |-> "add_to_order", item |-> item, quantity |-> quantity,
                        size |-> size, customerId |-> customerId]
        /\ IF existingItemIndex >= 1
           THEN LET total == order.items[existingItemIndex].quantity + quantity IN
                /\ orderState' =
                      MapSet(orderState, OrderKey(customerId),
                             [items |-> [order.items EXCEPT
                                            ![existingItemIndex].quantity = total]])
                /\ toolResult' = [kind |-> "updated", text |-> LineText(total, size, item)]
           ELSE /\ orderState' =
                      MapSet(orderState, OrderKey(customerId),
                             [items |-> Append(order.items,
                                               [item |-> item, quantity |-> quantity,
                                                size |-> size])])
                /\ toolResult' = [kind |-> "added", text |-> LineText(quantity, size, item)]
        /\ UNCHANGED otherVars

removeFromOrder(item, customerArg) ==
    LET customerId == DefaultCustomer(customerArg)
        order == OrderOf(customerId)
        itemIndex ==
            findIndex({k \in 1..Len(order.items) : SameItem(order.items[k], item)})
    IN  /\ toolCall' = [op |-> "remove_from_order", item |-> item,
                        customerId |-> customerId]
        /\ IF order.items = <<>>
           THEN /\ toolResult' = [kind |-> "already_empty"]
                /\ UNCHANGED orderState
           ELSE IF itemIndex >= 1
           THEN LET removedItem == order.items[itemIndex] IN
                /\ orderState' =
                      MapSet(orderState, OrderKey(customerId),
                             [items |-> splice(order.items, itemIndex)])
                /\ toolResult' =
                      [kind |-> "removed",
                       text |-> LineText(removedItem.quantity, removedItem.size,
                                         removedItem.item)]
           ELSE /\ toolResult' = [kind |-> "not_found", item |-> item]
                /\ UNCHANGED orderState
        /\ UNCHANGED otherVars

\* A faulty variant of confirmOrder: a confirmed order is taken out of the
\* store.
confirmOrderClears(customerArg) ==
    LET customerId == DefaultCustomer(customerArg)
        order == OrderOf(customerId)
    IN  /\ toolCall' = [op |-> "confirm_order", customerId |-> customerId]
        /\ toolResult' =
              IF order.items = <<>> THEN [kind |-> "nothing_to_confirm"]
              ELSE [kind |-> "confirmed", summary |-> orderSummary(order.items),
                    total |-> estimatedTotal(order.items)]
        /\ orderState' = MapDelete(orderState, OrderKey(customerId))
        /\ UNCHANGED otherVars

confirmOrder(customerArg) ==
    LET customerId == DefaultCustomer(customerArg)
        order == OrderOf(customerId)
    IN  /\ toolCall' = [op |-> "confirm_order", customerId |-> customerId]
        /\ toolResult' =
              IF order.items = <<>> THEN [kind |-> "nothing_to_confirm"]
              ELSE [kind |-> "confirmed", summary |-> orderSummary(order.items),
                    total |-> estimatedTotal(order.items)]
        /\ UNCHANGED orderState
        /\ UNCHANGED otherVars

cancelOrder(reason, customerArg) ==
    LET customerId == DefaultCustomer(customerArg)
        order == OrderOf(customerId)
    IN  /\ toolCall' = [op |-> "cancel_order", reason |-> reason,
                        customerId |-> customerId]
        /\ IF order.items = <<>>
           THEN /\ toolResult' = [kind |-> "no_active_order"]
                /\ UNCHANGED orderState
           ELSE /\ orderState' = MapDelete(orderState, OrderKey(customerId))
                /\ toolResult' = [kind |-> "cancelled", reason |-> reason]
        /\ UNCHANGED otherVars

getOrderStatus(customerArg) ==
    LET customerId == DefaultCustomer(customerArg)
        order == OrderOf(customerId)
    IN  /\ toolCall' = [op |-> "get_order_status", customerId |-> customerId]
        /\ toolResult' =
              IF order.items = <<>> THEN [kind |-> "no_items"]
              ELSE [kind |-> "status", summary |-> orderSummary(order.items)]
        /\ UNCHANGED orderState
        /\ UNCHANGED otherVars

OrdersInit == Init /\ limits.frames = MaxFrames

\* The tools are called by the agent, whichever session it serves; here the
\* caller is not followed.
OrdersNext ==
    \/ \E r \in AddRequests : \E c \in CustomerArgs :
          addToOrder(r[1], r[2], r[3], c) /\ UNCHANGED toolCaller
    \/ \E item \in RemoveRequests : \E c \in CustomerArgs :
          removeFromOrder(item, c) /\ UNCHANGED toolCaller
    \/ \E c \in CustomerArgs : confirmOrder(c) /\ UNCHANGED toolCaller
    \/ \E reason \in Reasons : \E c \in CustomerArgs :
          cancelOrder(reason, c) /\ UNCHANGED toolCaller
    \/ \E c \in CustomerArgs : getOrderStatus(c) /\ UNCHANGED toolCaller

SpecOrders == OrdersInit /\ [][OrdersNext]_vars

\* ------------------------------------------------- order tools and sessions
\* The agent is one object for all sessions (index.ts 94-98) and its tools
\* are those of order.ts: the agent serving session s calls a tool.  The
\* calls leave customerId out, as the documented calls do.
SharedAddRequests == { <<TurkeyClub, 1, "medium">>, <<chips, 1, "undefined">> }
SharedRemoveRequests == { turkey_club, chips }

\* The agent calls a tool while serving session s.
CalledBy(s) ==
    toolCaller' = [last |-> s,
                   earlier |-> toolCaller.earlier \cup
                               (IF toolCaller.last = 0 THEN {} ELSE {toolCaller.last})]

SharedOrderInit == Init /\ limits.frames = MaxFrames

SharedOrderNext ==
    \/ \E s \in SessionIds : \E r \in SharedAddRequests :
          CalledBy(s) /\ addToOrder(r[1], r[2], r[3], "undefined")
    \/ \E s \in SessionIds : \E item \in SharedRemoveRequests :
          CalledBy(s) /\ removeFromOrder(item, "undefined")
    \/ \E s \in SessionIds : CalledBy(s) /\ confirmOrder("undefined")
    \/ \E s \in SessionIds : CalledBy(s) /\ cancelOrder("undefined", "undefined")
    \/ \E s \in SessionIds : CalledBy(s) /\ getOrderStatus("undefined")

SpecSharedOrder == SharedOrderInit /\ [][SharedOrderNext]_vars

\* --------------------------------------------------------- task classifier
\* agent/skills/index.ts: classifyTask.  A task is a text of up to MaxWords
\* pieces of TaskWords joined by single spaces, or the documented example.
MaxWords == 3   \* pieces of a task

AgentType == [ORDER |-> "order", CUSTOMER_SERVICE |-> "customer_service",
              GENERAL |-> "general"]

orderKeywords ==
    << <<"o","r","d","e","r">>,
       <<"b","u","y">>,
       <<"p","u","r","c","h","a","s","e">>,
       <<"a","d","d">>,
       <<"r","e","m","o","v","e">>,
       <<"c","a","n","c","e","l">>,
       <<"c","o","n","f","i","r","m">>,
       <<"i"," ","w","a","n","t">>,
       <<"i","'","l","l"," ","h","a","v","e">>,
       <<"i","'","d"," ","l","i","k","e">>,
       <<"g","e","t"," ","m","e">>,
       <<"s","a","n","d","w","i","c","h">> >>

serviceKeywords ==
    << <<"w","h","a","t">>,
       <<"w","h","i","c","h">>,
       <<"h","o","w"," ","m","u","c","h">>,
       <<"p","r","i","c","e">>,
       <<"c","o","s","t">>,
       <<"a","v","a","i","l","a","b","l","e">>,
       <<"h","a","v","e">>,
       <<"m","e","n","u">>,
       <<"o","p","t","i","o","n","s">>,
       <<"c","o","m","p","l","a","i","n","t">>,
       <<"p","r","o","b","l","e","m">>,
       <<"i","s","s","u","e">> >>

TaskWords ==
    { <<"W","h","a","t">>,
      <<"t","o","p","p","i","n","g","s">>,
      <<"h","a","v","e","?">>,
      <<"I">>,
      <<"w","a","n","t">>,
      <<"s","a","n","d","w","i","c","h">>,
      <<"R","e","o","r","d","e","r">>,
      <<"H","o","w"," ","m","u","c","h">> }

\* "What toppings do you have?"
ExampleTask == <<"W","h","a","t"," ","t","o","p","p","i","n","g","s"," ","d","o"," ","y","o","u"," ","h","a","v","e","?">>

RECURSIVE JoinWords(_)
JoinWords(ws) ==
    IF Len(ws) = 1 THEN ws[1] ELSE ws[1] \o <<" ">> \o JoinWords(Tail(ws))

Tasks ==
    {ExampleTask}
    \cup UNION { {JoinWords(ws) : ws \in [1..n -> TaskWords]} : n \in 1..MaxWords }

\* String.prototype.includes: kw occurs in s at the start or further on.
RECURSIVE includes(_, _)
includes(s, kw) ==
    IF Len(s) < Len(kw) THEN FALSE
    ELSE IF SubSeq(s, 1, Len(kw)) = kw THEN TRUE
    ELSE includes(Tail(s), kw)

\* keywords.filter((kw) => lowerTask.includes(kw)).length
RECURSIVE Score(_, _)
Score(keywords, lowerTask) ==
    IF keywords = <<>> THEN 0
    ELSE (IF includes(lowerTask, Head(keywords)) THEN 1 ELSE 0)
         + Score(Tail(keywords), lowerTask)

\* A faulty variant of classifyTask: a tie goes to the order agent.
classifyTaskTieOrder(t) ==
    LET lowerTask == toLowerCase(t)
        orderScore == Score(orderKeywords, lowerTask)
        serviceScore == Score(serviceKeywords, lowerTask)
    IN  IF orderScore >= serviceScore THEN AgentType.ORDER
        ELSE AgentType.CUSTOMER_SERVICE

classifyTask(t) ==
    LET lowerTask == toLowerCase(t)
        orderScore == Score(orderKeywords, lowerTask)
        serviceScore == Score(serviceKeywords, lowerTask)
    IN  IF orderScore > serviceScore THEN AgentType.ORDER
        ELSE IF serviceScore > orderScore THEN AgentType.CUSTOMER_SERVICE
        ELSE AgentType.GENERAL

\* A task arrives at a caller of the classifier.
TaskArrives(t) ==
    /\ task = NoTask
    /\ task' = t
    /\ UNCHANGED agentType
    /\ UNCHANGED <<sessionVars, sessions, orderVars, transform>>

\* The caller classifies it.
Classify ==
    /\ task # NoTask /\ agentType = "none"
    /\ agentType' = classifyTask(task)
    /\ UNCHANGED task
    /\ UNCHANGED <<sessionVars, sessions, orderVars, transform>>

ClassifyInit == Init /\ limits.frames = MaxFrames

ClassifyNext ==
    \/ \E t \in Tasks : TaskArrives(t)
    \/ Classify

SpecClassify == ClassifyInit /\ [][ClassifyNext]_vars

\* ----------------------------------------------------------- AgentTransform
\* packages/web/src/transforms/AgentTransform.ts: a TransformStream whose
\* transform() opens a graph stream for the text and enqueues the
\* AIMessageChunks it yields.  The stream machinery calls transform() for
\* the next written text only when the promise of the call before has
\* resolved.
MaxTexts == 3         \* texts written to one AgentTransform
MaxStreamItems == 2   \* items one graph stream yields

\* The values randomUUID() may return.
RandomUUIDs == {Uuid(1), Uuid(2)}

\* The kinds of message a graph stream yields in streamMode "messages".
ChunkKinds == {"AIMessageChunk", "ToolMessageChunk", "HumanMessageChunk"}

\* AIMessageChunk.isInstance(chunk)
AIMessageChunk_isInstance(chunk) == chunk.kind = "AIMessageChunk"

\* A faulty variant of ThreadIdOfCall: a thread id is drawn in every
\* transform() call.
ThreadIdPerCall(t) == Uuid(t.started + 1)

\* The thread_id transform() passes to graph.stream: the constructor's
\* threadId, which the method closes over.
ThreadIdOfCall(t) == t.threadId

\* The items the graph stream of the current call has yielded so far.
StreamItems(t) == SelectSeq(t.streamed, LAMBDA x : x.input = t.started)

transformRest == <<sessionVars, sessions, orderVars, classifyVars>>

\* new AgentTransform(graph)
AgentTransformNew(id) ==
    /\ transform.threadId = Undefined
    /\ transform' = TransformNew(id)
    /\ UNCHANGED transformRest

\* A text is written to the writable side.
TransformWrite ==
    /\ transform.threadId # Undefined /\ transform.pc # "errored"
    /\ transform.written < MaxTexts
    /\ transform' = [transform EXCEPT !.written = @ + 1]
    /\ UNCHANGED transformRest

\* transform(text, controller) is called for the next text: graph.stream.
TransformCall ==
    /\ transform.threadId # Undefined
    /\ transform.pc = "idle" /\ transform.started < transform.written
    /\ transform' =
          [transform EXCEPT
             !.started = @ + 1,
             !.pc = "creating",
             !.calls = Append(@, [input |-> transform.started + 1,
                                  thread_id |-> ThreadIdOfCall(transform),
                                  streamMode |-> "messages"])]
    /\ UNCHANGED transformRest

\* await graph.stream(...) returns the stream, or throws: transform()
\* rejects and the TransformStream is errored.
GraphStreamCreated(ok) ==
    /\ transform.pc = "creating"
    /\ transform' = [transform EXCEPT !.pc = IF ok THEN "streaming" ELSE "errored"]
    /\ UNCHANGED transformRest

\* for await (const [chunk] of graphStream): one item.
GraphStreamItem(kind) ==
    /\ transform.pc = "streaming"
    /\ Len(StreamItems(transform)) < MaxStreamItems
    /\ LET chunk == [input |-> transform.started,
                     n |-> Len(StreamItems(transform)) + 1, kind |-> kind]
       IN  transform' =
              [transform EXCEPT
                 !.streamed = Append(@, chunk),
                 !.enqueued = IF AIMessageChunk_isInstance(chunk)
                              THEN Append(@, chunk) ELSE @]
    /\ UNCHANGED transformRest

\* The graph stream ends: transform() resolves.
GraphStreamEnds ==
    /\ transform.pc = "streaming"
    /\ transform' = [transform EXCEPT !.pc = "idle"]
    /\ UNCHANGED transformRest

TransformInit == Init /\ limits.frames = MaxFrames

TransformNext ==
    \/ \E id \in RandomUUIDs : AgentTransformNew(id)
    \/ TransformWrite
    \/ TransformCall
    \/ \E ok \in BOOLEAN : GraphStreamCreated(ok)
    \/ \E kind \in ChunkKinds : GraphStreamItem(kind)
    \/ GraphStreamEnds

SpecTransform == TransformInit /\ [][TransformNext]_vars

\* ------------------------------------------------------- reading the logs
IsPrefix(a, b) == Len(a) <= Len(b) /\ SubSeq(b, 1, Len(a)) = a

OfType(log, types) == SelectSeq(log, LAMBDA e : e.type \in types)
NotOfType(log, types) == SelectSeq(log, LAMBDA e : e.type \notin types)

\* The positions of the final transcripts in agentStream's output.
Finals == {i \in 1..Len(agentOut) : agentOut[i].type = "stt_output"}

\* The position of the next final transcript after i, or one past the end.
NextFinal(i) ==
    LET later == {j \in Finals : j > i}
    IN  IF later = {} THEN Len(agentOut) + 1
        ELSE CHOOSE j \in later : \A k \in later : j <= k

\* The positions of the turn started at i: up to the next final transcript.
TurnOf(i) == (i + 1)..(NextFinal(i) - 1)

TurnEnds(i) == {k \in TurnOf(i) : agentOut[k].type = "agent_end"}

\* agentStream is inside a turn: it awaits the agent's stream or a message.
TurnOpen == agentPc \in {"creating", "streaming"}

\* C1: every final transcript that entered agentStream is followed by exactly
\* one agent_end before the next final transcript; none yet only while its
\* turn is still being processed; and no agent_end comes without a turn.
C1_ExactlyOneTurnEnd ==
    /\ \A i \in Finals :
          Cardinality(TurnEnds(i)) =
              IF NextFinal(i) > Len(agentOut) /\ TurnOpen THEN 0 ELSE 1
    /\ \A k \in 1..Len(agentOut) :
          agentOut[k].type = "agent_end" => \E i \in Finals : i < k

\* Two turns are over, both ended by an error of the agent, one of them
\* after a message was read.
C1_Witness ==
    /\ agentPc = "idle" /\ agentErrors = 2 /\ agentMsgs >= 1
    /\ Cardinality(Finals) = 2
    /\ Len(OfType(agentOut, {"agent_end"})) = 2

\* ~ENABLED Next, spelled out for a session's state: no continuation is ready
\* and the environment has nothing left to deliver.
Quiescent == ~ENABLED Next

\* C2: once the input channel is cancelled, no vendor call has failed and
\* nothing is left to run, the three stages and the egress loop are over and
\* onClose has returned.
C2_DrainOnCancel ==
    (wsState = "closed" /\ ~sttProdFailed /\ ~ttsProdFailed /\ ~crashed /\ Quiescent)
        => /\ sttGen = "done" /\ agentPc = "done" /\ ttsGen = "done"
           /\ sttProd = "done" /\ sttCons = "done"
           /\ ttsProd = "done" /\ ttsCons = "done"
           /\ onCloseReturned

\* C3: close() is never called twice on a vendor, and in a session whose
\* input channel was cancelled and that has run to its end each vendor's
\* close() was called once.
C3_CloseExactlyOnce ==
    /\ sttCloseCalls <= 1 /\ ttsCloseCalls <= 1
    /\ (wsState = "closed" /\ ~crashed /\ Quiescent)
          => sttCloseCalls = 1 /\ ttsCloseCalls = 1

\* C4: a stage whose output has ended has both its tasks completed and its
\* vendor closed.
C4_EndedStageHasNoTask ==
    /\ sttGen = "done" =>
          /\ sttProd \in {"done", "rejected"} /\ sttCons = "done"
          /\ sttCloseCalls > 0
    /\ ttsGen = "done" =>
          /\ ttsProd \in {"done", "rejected"} /\ ttsCons = "done"
          /\ ttsCloseCalls > 0

\* The texts of the turns of a log: for each agent_end the concatenation of
\* the agent_chunk texts since the agent_end before it (done), and the
\* concatenation of those after the last agent_end (cur).
RECURSIVE Accumulate(_, _, _, _)
Accumulate(log, i, cur, done) ==
    IF i > Len(log) THEN [done |-> done, cur |-> cur]
    ELSE IF log[i].type = "agent_end"
         THEN Accumulate(log, i + 1, <<>>, Append(done, cur))
    ELSE IF log[i].type = "agent_chunk"
         THEN Accumulate(log, i + 1, cur \o log[i].text, done)
    ELSE Accumulate(log, i + 1, cur, done)

\* C5: the texts passed to tts.sendText are, agent_end by agent_end, the
\* concatenation of the agent_chunk texts received since the agent_end
\* before; while the producer reads, the buffer holds the texts received
\* since the last agent_end and nothing of an earlier turn.
C5_AccumulationLaw ==
    LET turns == Accumulate(agentOut, 1, <<>>, <<>>) IN
    /\ ttsSendLog = turns.done
    /\ ttsProd = "reading" => Join(buffer) = turns.cur

\* Two turns with text were sent and the producer reads again.
C5_Witness ==
    /\ ttsProd = "reading" /\ Len(ttsSendLog) = 2
    /\ ttsSendLog[1] # <<>> /\ ttsSendLog[2] # <<>>
    /\ ttsSendLog[1] # ttsSendLog[2]

\* The final transcript that starts the turn position k belongs to (0: none).
TurnStart(k) ==
    LET before == {i \in Finals : i < k}
    IN  IF before = {} THEN 0 ELSE CHOOSE i \in before : \A j \in before : j <= i

\* C6: every tool_result carries the id of exactly one tool_call emitted
\* earlier in the same turn.
C6_ToolResultsPaired ==
    \A k \in 1..Len(agentOut) :
        agentOut[k].type = "tool_result" =>
            Cardinality({j \in (TurnStart(k) + 1)..(k - 1) :
                            /\ agentOut[j].type = "tool_call"
                            /\ agentOut[j].id = agentOut[k].id}) = 1

\* The greeting pattern in the words of its description: the trimmed text,
\* letter case put aside, is one of the greetings, or one followed by ".".
IsGreetingText(text) ==
    LET s == FoldCase(trim(text))
    IN  \E w \in GreetingWords : s = w \/ s = w \o <<".">>

\* C7: a final transcript that is a greeting is followed by exactly one
\* agent_chunk (the fixed reply) and then agent_end, the turn holds no
\* tool_call and no tool_result, and agent.stream is called for the other
\* final transcripts only.
C7_GreetingShortCircuit ==
    /\ \A i \in Finals :
          IsGreetingText(agentOut[i].text) =>
              /\ i + 2 <= Len(agentOut)
              /\ agentOut[i + 1] = AgentChunk(GreetingReply)
              /\ agentOut[i + 2] = AgentEnd
              /\ \A k \in TurnOf(i) :
                    k > i + 2 => agentOut[k].type \in {"stt_chunk"}
    /\ LET finals == OfType(agentOut, {"stt_output"})
           others == SelectSeq(finals, LAMBDA e : ~IsGreetingText(e.text))
       IN  agentCalls = [k \in 1..Len(others) |-> others[k].text]

\* A greeting with blanks around it, a capital and a period was answered on
\* the fast path, after a turn that went to the agent.
C7_Witness ==
    /\ Len(agentCalls) = 1
    /\ \E i \in Finals :
          /\ i > 1
          /\ agentOut[i].text = <<" ", "H", "i", ".", " ">>
          /\ i + 2 = Len(agentOut)

\* C8: what the egress loop has received from ttsStream's passthrough, taken
\* producer by producer, is what that producer pushed, in the order it
\* pushed it and nothing twice.
C8_QueueKeepsProducerOrder ==
    /\ IsPrefix(NotOfType(ttsOut, {"tts_chunk"}), ttsPushedUp)
    /\ IsPrefix(OfType(ttsOut, {"tts_chunk"}), ttsPushedAudio)

\* The consumer received audio between the events of two turns.
C8_Witness ==
    /\ Len(ttsOut) >= 6
    /\ \E i, j, k \in 1..Len(ttsOut) :
          /\ i < j /\ j < k
          /\ ttsOut[i].type = "agent_end"
          /\ ttsOut[j].type = "tts_chunk"
          /\ ttsOut[k].type = "agent_end"

\* C9: the frames delivered to the sttStream producer are the frames pushed,
\* in order; the producer observes end-of-stream only after cancel() and
\* after every pushed frame was delivered; and after cancel() a producer
\* that waits for the next frame never waits on: it gets a frame or the end.
C9_CancelDrainsQueue ==
    /\ IsPrefix(sttSendLog, inputPushed)
    /\ sttSawEnd => inputStream.done /\ sttSendLog = inputPushed
    /\ (inputStream.done /\ sttProd = "reading") => CanSttProducerRead

\* cancel() found a frame waiting, and the producer got it before the end.
C9_Witness ==
    /\ sttSawEnd /\ queuedAtCancel > 0
    /\ Len(sttSendLog) = 2

\* C10: agentStream's output holds the events it received, once each, in
\* order and unchanged, among its own; the same for ttsStream, whose output
\* is what the egress loop received plus what its passthrough still holds,
\* and the passthrough holds nothing once the egress loop has caught up.
C10_Passthrough ==
    /\ OfType(agentOut, {"stt_chunk", "stt_output"}) = agentIn
    /\ NotOfType(ttsOut \o ttsPass.items, {"tts_chunk"}) = agentOut
    /\ (flushPc = "running" /\ ~CanFlushPull) => ttsPass.items = <<>>

\* A partial and a final transcript went through both stages.
C10_Witness ==
    /\ Len(agentIn) = 2
    /\ agentIn[1].type = "stt_chunk" /\ agentIn[2].type = "stt_output"
    /\ ttsPass.items = <<>>
    /\ Len(ttsOut) >= 4

\* Number of events of the given types before position k of a log.
CountBefore(log, k, types) ==
    Cardinality({j \in 1..(k - 1) : log[j].type \in types})

SttTypes == {"stt_chunk", "stt_output"}
AgentTypes == {"agent_chunk", "tool_call", "tool_result", "agent_end"}

\* C11: at most one turn is being processed: at every final transcript in
\* agentStream's output every earlier turn has its agent_end, so the finals
\* outnumber the agent_ends by one at most; and every final transcript taken
\* was answered by the greeting or passed to agent.stream, one call each.
C11_OneTurnAtATime ==
    /\ \A i \in Finals :
          CountBefore(agentOut, i, {"agent_end"}) =
              CountBefore(agentOut, i, {"stt_output"})
    /\ Len(OfType(agentOut, {"stt_output"}))
          - Len(OfType(agentOut, {"agent_end"})) \in {0, 1}
    /\ Len(agentCalls) <= Len(OfType(agentIn, {"stt_output"}))
    /\ TurnOpen => Len(OfType(agentOut, {"stt_output"}))
                      = Len(OfType(agentOut, {"agent_end"})) + 1

\* A final transcript waits in sttStream's output while the agent streams
\* the answer to the one before.
C11_Witness ==
    /\ agentPc = "streaming" /\ agentMsgs >= 1
    /\ \E k \in 1..Len(sttPass.items) : sttPass.items[k].type = "stt_output"

\* C12: an error of the agent stays inside agentStream: agentStream does
\* not end by an exception, and once the turn is no longer being processed
\* every final transcript has its agent_end.
C12_AgentErrorContained ==
    agentErrors > 0 =>
        /\ agentPc # "throwing"
        /\ ~TurnOpen => Len(OfType(agentOut, {"agent_end"}))
                           = Len(OfType(agentOut, {"stt_output"}))

\* C13: after a failed send call the stage's producer still reads its
\* input: the recognizer's producer has not left its loop, and neither has
\* the synthesizer's.
C13_VendorErrorKeepsSession ==
    /\ sttProdFailed => sttProd \in {"reading", "sending"}
    /\ ttsProd \notin {"unwinding"}

\* C14: every call of agent.stream carries the thread identifier of the
\* session.
C14_CallsCarryThreadId ==
    \A k \in 1..Len(agentConfigs) : agentConfigs[k].thread_id = threadId

C16_EgressWritesAll ==
    wsSent = [i \in 1..Len(ttsOut) |->
                 <<"json", ttsOut[i].type, ttsOut[i].text, ttsOut[i].id>>]

\* Transcripts, an answer and audio were written.
C16_Witness ==
    /\ Len(wsSent) >= 5
    /\ \E i, j \in 1..Len(wsSent) :
          wsSent[i][2] = "tts_chunk" /\ wsSent[j][2] = "agent_chunk"
    /\ ~CanFlushPull

\* The numbers of the binary frames of a frame log.
BinaryFrames(log) ==
    SelectSeq([i \in 1..Len(log) |-> i],
              LAMBDA i : log[i] \in {"Buffer", "ArrayBuffer"})

\* C17: the frames pushed into inputStream are the binary frames received,
\* once each; receiving a binary frame appends it to inputStream; and
\* receiving any other frame changes nothing but the count of frames seen.
C17_IngressPushesBinaryOnly ==
    /\ [](inputPushed = BinaryFrames(frameLog))
    /\ [][ frameLog' # frameLog =>
             IF frameLog'[Len(frameLog')] \in {"Buffer", "ArrayBuffer"}
             THEN inputStream' =
                     [inputStream EXCEPT !.items = Append(@, Len(frameLog'))]
             ELSE UNCHANGED <<envVars, wsState, currentSocket, inputStream,
                              inputPushed, queuedAtCancel, sttTaskVars,
                              sttVendorVars, sttGen, sttPass, agentVars,
                              ttsTaskVars, ttsVendorVars, ttsPass, outVars,
                              crashed>> ]_vars

\* A text frame was dropped and the binary frame after it was pushed.
C17_Witness ==
    /\ frameLog = <<"string", "Buffer">>
    /\ inputPushed = <<2>>
    /\ sttSendLog = <<2>>

\* C18: the transcripts keep the order in which the recognizer emitted them
\* in sttStream's, agentStream's and ttsStream's output and on the socket,
\* and the audio chunks the order in which the synthesizer emitted them.
C18_SourceOrderKept ==
    /\ IsPrefix(agentIn, sttPushed)
    /\ IsPrefix(OfType(agentOut, SttTypes), sttPushed)
    /\ IsPrefix(OfType(ttsOut, SttTypes), sttPushed)
    /\ LET sent == SelectSeq(wsSent, LAMBDA f : f[2] \in SttTypes)
       IN  /\ Len(sent) <= Len(sttPushed)
           /\ \A i \in 1..Len(sent) : sent[i][3] = sttPushed[i].text
                                      /\ sent[i][2] = sttPushed[i].type
    /\ LET audio == OfType(ttsOut, {"tts_chunk"})
       IN  \A i \in 1..Len(audio) : audio[i] = TtsChunk(i)
    /\ LET sent == SelectSeq(wsSent, LAMBDA f : f[2] = "tts_chunk")
       IN  \A i \in 1..Len(sent) : sent[i][4] = AudioId(i)

\* A final transcript, then a partial and another final one reached the
\* socket, and all the audio.
C18_Witness ==
    /\ Len(sttPushed) = 3
    /\ sttPushed[1].type = "stt_output"
    /\ sttPushed[2].type = "stt_chunk" /\ sttPushed[3].type = "stt_output"
    /\ Len(SelectSeq(wsSent, LAMBDA f : f[2] \in SttTypes)) = 3
    /\ Len(SelectSeq(wsSent, LAMBDA f : f[2] = "tts_chunk")) = MaxAudio

\* C19: in agentStream's output every event the stage generated comes after
\* a final transcript and before or as that turn's agent_end: no agent_end
\* lies between the final transcript of its turn and the event.
C19_GeneratedAfterTrigger ==
    \A k \in 1..Len(agentOut) :
        agentOut[k].type \in AgentTypes =>
            /\ TurnStart(k) # 0
            /\ \A j \in (TurnStart(k) + 1)..(k - 1) :
                  agentOut[j].type # "agent_end"

\* A turn with text, tool calls and a tool result was ended.
C19_Witness ==
    /\ Len(agentOut) >= 6
    /\ agentOut[Len(agentOut)].type = "agent_end"
    /\ agentOut[Len(agentOut) - 1].type = "tool_result"
    /\ \E k \in 1..Len(agentOut) : agentOut[k].type = "agent_chunk"

\* What a session's own inputs, replayed without any other session, make it
\* send: the calls on its recognizer, the texts for its synthesizer and the
\* frames on its socket.
RECURSIVE Replay(_, _)
Replay(log, out) ==
    IF log = <<>> THEN out
    ELSE LET x == Head(log)
             next ==
                 IF x.kind = "frame"
                 THEN [out EXCEPT !.stt = Append(@, x.data)]
                 ELSE IF x.kind = "close"
                 THEN [out EXCEPT !.stt = Append(@, <<"close">>)]
                 ELSE IF x.kind = "final"
                 THEN LET evs == TurnEvents(x.data[1], x.data[2]) IN
                      [out EXCEPT
                         !.tts = Append(@, Join(ChunkTexts(evs))),
                         !.ws = @ \o [i \in 1..Len(evs) |->
                                        <<"json", evs[i].type, evs[i].text, evs[i].id>>]]
                 ELSE IF x.kind = "audio"
                 THEN [out EXCEPT !.ws = Append(@, <<"json", "tts_chunk", <<>>, AudioId(x.data)>>)]
                 ELSE out
         IN  Replay(Tail(log), next)

ItemsOf(m, c) == IF MapHas(m, c) THEN m[c].items ELSE <<>>

\* The lines as the set of which item and size they are.
KeyOf(i) == <<toLowerCase(i.item), i.size>>
KeySet(items) == {KeyOf(items[k]) : k \in 1..Len(items)}

IsCall(call, op) == call.op = op
CalledFor(call, c) == call.op # "none" /\ call.customerId = c

C21_StatusReportsOwnLines ==
    IsCall(toolCall, "get_order_status") /\ toolResult.kind = "status" =>
        LET own == ItemsOf(orderState, toolCall.customerId) IN
        /\ Len(toolResult.summary) = Len(own)
        /\ \A k \in 1..Len(own) : toolResult.summary[k].item = own[k].item

C21_Step ==
    toolCall'.op # "none" =>
        \A b \in CustomerIds :
            /\ ~CalledFor(toolCall', b) =>
                  /\ MapHas(orderState', b) <=> MapHas(orderState, b)
                  /\ ItemsOf(orderState', b) = ItemsOf(orderState, b)
            /\ \A key \in KeySet(ItemsOf(orderState', b)) \ KeySet(ItemsOf(orderState, b)) :
                  /\ IsCall(toolCall', "add_to_order") /\ CalledFor(toolCall', b)
                  /\ key = <<toLowerCase(toolCall'.item), toolCall'.size>>

\* C21: orders are kept per customer.  A tool called for customer A leaves
\* the stored order of every other customer as it was; a line appears in a
\* customer's order only by an add_to_order called for that customer, and
\* get_order_status reports the lines of the customer it is called for.
C21_OrdersPerCustomer == []C21_StatusReportsOwnLines /\ [][C21_Step]_vars

\* Both customers have an order, and the status of one has been reported.
C21_Witness ==
    /\ IsCall(toolCall, "get_order_status") /\ toolResult.kind = "status"
    /\ toolCall.customerId = "B"
    /\ KeySet(ItemsOf(orderState, "B")) = {<<toLowerCase(chips), "undefined">>}
    /\ KeySet(ItemsOf(orderState, "default")) = {<<toLowerCase(TurkeyClub), "medium">>}

\* The price of an item at a size on the menu, in cents: a sandwich's price
\* at that size, a side's price.
MenuPrice(item, size) ==
    LET sandwich == {k \in 1..Len(MENU_DATA.sandwiches) :
                        toLowerCase(MENU_DATA.sandwiches[k].name) = toLowerCase(item)}
        side == {k \in 1..Len(MENU_DATA.sides) :
                        toLowerCase(MENU_DATA.sides[k].name) = toLowerCase(item)}
    IN  IF sandwich # {}
        THEN MENU_DATA.sandwiches[CHOOSE k \in sandwich : TRUE].price[size]
        ELSE MENU_DATA.sides[CHOOSE k \in side : TRUE].price

RECURSIVE MenuTotal(_)
MenuTotal(items) ==
    IF items = <<>> THEN 0
    ELSE Head(items).quantity * MenuPrice(Head(items).item, Head(items).size)
         + MenuTotal(Tail(items))

\* C22: the estimated total confirm_order reports is the sum, over the lines
\* of the order, of the quantity times the menu price of the item at its
\* size: 2098 cents for 2 medium Turkey Clubs, 1198 cents for 1 medium
\* Classic BLT and 1 chips.
C22_TotalIsMenuPrice ==
    IsCall(toolCall, "confirm_order") /\ toolResult.kind = "confirmed" =>
        toolResult.total = MenuTotal(ItemsOf(orderState, toolCall.customerId))

\* C23: after add_to_order the item is a line of that customer's order, with
\* the quantity added to the line of the same name (whatever the case) and
\* the same size when there is one and appended as a new line otherwise; a
\* line stays in the order until a remove_from_order of its item or a
\* cancel_order for its customer, and get_order_status reports every line.
C23_StatusReportsEveryLine ==
    IsCall(toolCall, "get_order_status") =>
        LET own == ItemsOf(orderState, toolCall.customerId) IN
        IF own = <<>> THEN toolResult.kind = "no_items"
        ELSE /\ toolResult.kind = "status"
             /\ Len(toolResult.summary) = Len(own)
             /\ \A k \in 1..Len(own) :
                   /\ toolResult.summary[k].item = own[k].item
                   /\ toolResult.summary[k].quantity = own[k].quantity

C23_AddStep ==
    IsCall(toolCall', "add_to_order") =>
        LET c == toolCall'.customerId
            old == ItemsOf(orderState, c)
            new == ItemsOf(orderState', c)
            same == {k \in 1..Len(old) :
                        /\ toLowerCase(old[k].item) = toLowerCase(toolCall'.item)
                        /\ old[k].size = toolCall'.size}
        IN  IF same # {}
            THEN /\ Len(new) = Len(old)
                 /\ \E k \in same :
                       /\ new[k].quantity = old[k].quantity + toolCall'.quantity
                       /\ \A j \in 1..Len(old) : j # k => new[j] = old[j]
            ELSE new = Append(old, [item |-> toolCall'.item,
                                    quantity |-> toolCall'.quantity,
                                    size |-> toolCall'.size])

C23_KeepStep ==
    toolCall'.op # "none" =>
        \A c \in CustomerIds :
            \A key \in KeySet(ItemsOf(orderState, c)) \ KeySet(ItemsOf(orderState', c)) :
                /\ CalledFor(toolCall', c)
                /\ \/ IsCall(toolCall', "cancel_order")
                   \/ /\ IsCall(toolCall', "remove_from_order")
                      /\ key[1] = toLowerCase(toolCall'.item)

C23_AddedUntilRemoved ==
    []C23_StatusReportsEveryLine /\ [][C23_AddStep /\ C23_KeepStep]_vars

\* "turkey club" was added to an order that held a medium Turkey Club: one
\* line, of two.
C23_Witness ==
    /\ IsCall(toolCall, "add_to_order") /\ toolCall.item = turkey_club
    /\ toolResult.kind = "updated"
    /\ ItemsOf(orderState, toolCall.customerId) =
          << [item |-> TurkeyClub, quantity |-> 2, size |-> "medium"] >>

\* C24: the error outcomes change nothing.  remove_from_order of an item no
\* line of the order names returns the not-found message; remove_from_order,
\* confirm_order, cancel_order and get_order_status on a missing or empty
\* order return their empty-order message; in each case the store is as it
\* was.
C24_Step ==
    toolCall'.op # "none" =>
        LET old == ItemsOf(orderState, toolCall'.customerId) IN
        /\ old = <<>> /\ ~IsCall(toolCall', "add_to_order") =>
              /\ orderState' = orderState
              /\ toolResult'.kind =
                    CASE IsCall(toolCall', "remove_from_order") -> "already_empty"
                      [] IsCall(toolCall', "confirm_order") -> "nothing_to_confirm"
                      [] IsCall(toolCall', "cancel_order") -> "no_active_order"
                      [] IsCall(toolCall', "get_order_status") -> "no_items"
        /\ ( /\ old # <<>> /\ IsCall(toolCall', "remove_from_order")
             /\ \A k \in 1..Len(old) :
                   toLowerCase(old[k].item) # toLowerCase(toolCall'.item) ) =>
              /\ orderState' = orderState
              /\ toolResult' = [kind |-> "not_found", item |-> toolCall'.item]

C24_ErrorsChangeNothing == [][C24_Step]_vars

\* A Pizza was not found in an order of two lines, while the other customer's
\* order exists and is empty.
C24_Witness ==
    /\ IsCall(toolCall, "remove_from_order") /\ toolCall.item = Pizza
    /\ toolResult.kind = "not_found"
    /\ Len(ItemsOf(orderState, toolCall.customerId)) = 2
    /\ \E b \in CustomerIds : MapHas(orderState, b) /\ orderState[b].items = <<>>

\* C25: cancel_order on an order that has lines removes the whole order:
\* the store has no entry for the customer, and the next call for that
\* customer reports an empty order (get_order_status, confirm_order), no
\* active order (cancel_order), or starts an order of the added line only
\* (add_to_order).
C25_Cancelled ==
    toolResult.kind = "cancelled" => ~MapHas(orderState, toolCall.customerId)

C25_Step ==
    toolResult.kind = "cancelled" /\ CalledFor(toolCall', toolCall.customerId) =>
        /\ IsCall(toolCall', "get_order_status") => toolResult'.kind = "no_items"
        /\ IsCall(toolCall', "confirm_order") => toolResult'.kind = "nothing_to_confirm"
        /\ IsCall(toolCall', "cancel_order") =>
              toolResult'.kind = "no_active_order"
        /\ IsCall(toolCall', "add_to_order") =>
              ItemsOf(orderState', toolCall.customerId) =
                 << [item |-> toolCall'.item, quantity |-> toolCall'.quantity,
                     size |-> toolCall'.size] >>

C25_CancelRemovesOrder == []C25_Cancelled /\ [][C25_Step]_vars

\* An order was cancelled with a reason while the other customer's order of
\* two lines stays.
C25_Witness ==
    /\ toolResult.kind = "cancelled" /\ toolCall.reason = "changed my mind"
    /\ ~MapHas(orderState, toolCall.customerId)
    /\ \E b \in CustomerIds : Len(ItemsOf(orderState, b)) = 2

\* ------------------------------------------------------------ tool call ids
Generated(e) == e.id[1] = "uuid"

\* C26: every tool_call event agentStream yields carries an id that is not
\* undefined; the ids the collaborator supplied are passed on as they are, in
\* order, and the others are generated, one per missing id, no two alike.
C26_ToolCallsCarryIds ==
    LET calls == OfType(agentOut, {"tool_call"})
        supplied == SelectSeq(calls, LAMBDA e : ~Generated(e))
        generated == SelectSeq(calls, LAMBDA e : Generated(e))
    IN  /\ \A i \in 1..Len(calls) : calls[i].id # Undefined
        /\ supplied = [k \in 1..Len(supplied) |-> ToolCall(CallId(k))]
        /\ Len(supplied) <= callsMade
        /\ Len(generated) <= uuidsMade
        /\ \A i, j \in 1..Len(generated) : i # j => generated[i].id # generated[j].id

\* Two messages of one turn each had a tool call with an id and one without.
C26_Witness ==
    LET calls == OfType(agentOut, {"tool_call"})
    IN  /\ Len(calls) = 4
        /\ Len(SelectSeq(calls, LAMBDA e : Generated(e))) = 2

\* ------------------------------------------------------- audio to recognizer
\* C27: while no sendAudio call has failed, every audio chunk pushed into
\* inputStream has been passed to stt.sendAudio or waits in inputStream, in
\* the order pushed and each once; the producer waits for input only when it
\* has forwarded everything, and once it has left its loop at the end of the
\* stream it has forwarded every chunk, those that waited while it was busy
\* included.
C27_EveryChunkForwarded ==
    ~sttProdFailed =>
        /\ sttSendLog \o inputStream.items = inputPushed
        /\ \A i, j \in 1..Len(sttSendLog) : i # j => sttSendLog[i] # sttSendLog[j]
        /\ (sttProd = "reading" /\ ~CanSttProducerRead) => sttSendLog = inputPushed
        /\ sttProd \in {"closing", "done", "rejected"} => sttSendLog = inputPushed

\* A chunk was pushed while the producer was in sendAudio and waited in
\* inputStream until after cancel(); the producer has forwarded both chunks
\* and finished.
C27_Witness ==
    /\ ~sttProdFailed /\ sttProd = "done"
    /\ queuedAtCancel = 1
    /\ Len(inputPushed) = MaxFrames /\ sttSendLog = inputPushed

\* ------------------------------------------------ transcripts during a turn
\* C30: in agentStream's output a recognizer event (partial or final
\* transcript) comes only when every earlier final transcript has its
\* agent_end, so none stands between a final transcript and the agent_end of
\* its turn; while a turn is being processed everything after its final
\* transcript is the agent's, and the transcripts that arrive stay in
\* sttStream's output until agentStream reads on.
C30_NoTranscriptInsideTurn ==
    /\ \A k \in 1..Len(agentOut) :
          agentOut[k].type \in SttTypes =>
              CountBefore(agentOut, k, {"agent_end"}) =
                  CountBefore(agentOut, k, {"stt_output"})
    /\ OfType(agentOut, SttTypes) = agentIn
    /\ TurnOpen =>
          /\ Finals # {}
          /\ \A k \in 1..Len(agentOut) :
                (\A i \in Finals : i < k) =>
                    agentOut[k].type \in AgentTypes \ {"agent_end"}

\* A partial and a final transcript wait in sttStream's output while
\* agentStream awaits the agent for the final transcript before them.
C30_Witness ==
    /\ TurnOpen /\ Len(sttPass.items) = 2
    /\ sttPass.items[1].type = "stt_chunk" /\ sttPass.items[2].type = "stt_output"

\* ------------------------------------------------------ classifier: claims
\* The keywords of a list that occur somewhere in the text.
Occurring(keywords, text) ==
    {k \in 1..Len(keywords) :
        \E at \in 1..(Len(text) - Len(keywords[k]) + 1) :
            SubSeq(text, at, at + Len(keywords[k]) - 1) = keywords[k]}

\* C28: classifyTask returns ORDER when more order keywords than service
\* keywords occur as substrings of the lower-cased task, CUSTOMER_SERVICE
\* when more service keywords occur, and GENERAL on a tie, no keyword at
\* all included; for "What toppings do you have?" it returns
\* CUSTOMER_SERVICE.
C28_ClassifyByKeywordCount ==
    agentType # "none" =>
        LET lower == FoldCase(task)
            orders == Cardinality(Occurring(orderKeywords, lower))
            services == Cardinality(Occurring(serviceKeywords, lower))
        IN  /\ orders > services => agentType = "order"
            /\ services > orders => agentType = "customer_service"
            /\ orders = services => agentType = "general"
            /\ task = ExampleTask => agentType = "customer_service"

\* The documented example has been classified.
C28_Witness == task = ExampleTask /\ agentType = "customer_service"

\* -------------------------------------------------- AgentTransform: claims
\* C29: an AgentTransform handles its texts one at a time under one thread
\* id: the n-th graph.stream call is for the n-th text and carries the
\* thread id the constructor drew; what is enqueued is what the graph
\* streams yielded, in that order, less everything that is not an
\* AIMessageChunk; and the chunks of a text come before those of the next.
C29_OneThreadInOrder ==
    /\ Len(transform.calls) = transform.started
    /\ \A k \in 1..Len(transform.calls) :
          /\ transform.calls[k].input = k
          /\ transform.calls[k].thread_id = transform.threadId
    /\ transform.enqueued =
          SelectSeq(transform.streamed, LAMBDA x : x.kind = "AIMessageChunk")
    /\ \A i, j \in 1..Len(transform.enqueued) :
          i < j =>
             \/ transform.enqueued[i].input < transform.enqueued[j].input
             \/ /\ transform.enqueued[i].input = transform.enqueued[j].input
                /\ transform.enqueued[i].n < transform.enqueued[j].n

\* Two texts have been handled; the first stream yielded a tool message
\* between two AIMessageChunks, and a chunk of the second text follows.
C29_Witness ==
    /\ Len(transform.calls) = 2
    /\ Len(transform.streamed) = 3 /\ transform.streamed[1].kind = "ToolMessageChunk"
    /\ Len(transform.enqueued) = 2
    /\ transform.enqueued[1].input = 1 /\ transform.enqueued[2].input = 2

\* --------------------------------------------- order tools: further claims
\* C36: confirm_order leaves the order store as it is: after a confirmation
\* the customer's order holds the lines it held, the confirmation lists
\* them, and get_order_status or a second confirm_order that follows lists
\* the same lines again.
C36_Confirmed ==
    IsCall(toolCall, "confirm_order") /\ toolResult.kind = "confirmed" =>
        toolResult.summary = orderSummary(ItemsOf(orderState, toolCall.customerId))

C36_Step ==
    /\ IsCall(toolCall', "confirm_order") => orderState' = orderState
    /\ ( /\ IsCall(toolCall, "confirm_order") /\ toolResult.kind = "confirmed"
         /\ CalledFor(toolCall', toolCall.customerId) ) =>
           /\ IsCall(toolCall', "get_order_status") =>
                 toolResult' = [kind |-> "status", summary |-> toolResult.summary]
           /\ IsCall(toolCall', "confirm_order") => toolResult' = toolResult

C36_ConfirmKeepsOrder == []C36_Confirmed /\ [][C36_Step]_vars

\* An order of two lines has been confirmed and is still in the store.
C36_Witness ==
    /\ IsCall(toolCall, "confirm_order") /\ toolResult.kind = "confirmed"
    /\ Len(toolResult.summary) = 2
    /\ Len(ItemsOf(orderState, toolCall.customerId)) = 2

\* C37: no order ever holds two lines of the same lower-cased item name
\* and the same size, and an add_to_order for a name and size the order
\* already has changes the quantity of that line and nothing else.
C37_NoTwoLinesAlike ==
    \A c \in DOMAIN orderState :
        \A i, j \in 1..Len(orderState[c].items) :
            i # j => KeyOf(orderState[c].items[i]) # KeyOf(orderState[c].items[j])

C37_Step ==
    IsCall(toolCall', "add_to_order") =>
        LET c == toolCall'.customerId
            old == ItemsOf(orderState, c)
            new == ItemsOf(orderState', c)
            key == <<toLowerCase(toolCall'.item), toolCall'.size>>
        IN  key \in KeySet(old) =>
               /\ Len(new) = Len(old)
               /\ \A k \in 1..Len(old) :
                     /\ new[k].item = old[k].item /\ new[k].size = old[k].size
                     /\ KeyOf(old[k]) # key => new[k].quantity = old[k].quantity
                     /\ KeyOf(old[k]) = key =>
                           new[k].quantity = old[k].quantity + toolCall'.quantity

C37_OneLinePerItemAndSize == []C37_NoTwoLinesAlike /\ [][C37_Step]_vars

\* An order holds the Turkey Club in two sizes, the medium one added twice
\* under two spellings.
C37_Witness ==
    \E c \in DOMAIN orderState :
        orderState[c].items =
           << [item |-> TurkeyClub, quantity |-> 2, size |-> "medium"],
              [item |-> TurkeyClub, quantity |-> 1, size |-> "large"] >>

\* C38: remove_from_order takes out one line, the first whose name is the
\* item's when both are lower-cased, whatever its size and with all its
\* quantity; the lines before and after it stay as they are, those of the
\* same name in another size included.
C38_Step ==
    IsCall(toolCall', "remove_from_order") =>
        LET old == ItemsOf(orderState, toolCall'.customerId)
            new == ItemsOf(orderState', toolCall'.customerId)
            named == {k \in 1..Len(old) :
                         toLowerCase(old[k].item) = toLowerCase(toolCall'.item)}
        IN  named # {} =>
               \E k \in named :
                  /\ \A j \in named : k <= j
                  /\ Len(new) = Len(old) - 1
                  /\ \A j \in 1..(k - 1) : new[j] = old[j]
                  /\ \A j \in (k + 1)..Len(old) : new[j - 1] = old[j]
                  /\ toolResult' =
                        [kind |-> "removed",
                         text |-> LineText(old[k].quantity, old[k].size, old[k].item)]

C38_RemoveTakesFirstLine == [][C38_Step]_vars

\* "turkey club" was removed from an order of a medium and a large Turkey
\* Club: the medium line of two went, the large one stays.
C38_Witness ==
    /\ IsCall(toolCall, "remove_from_order") /\ toolCall.item = turkey_club
    /\ toolResult.kind = "removed"
    /\ toolResult.text.size = "medium" /\ toolResult.text.quantity = 2
    /\ ItemsOf(orderState, toolCall.customerId) =
          << [item |-> TurkeyClub, quantity |-> 1, size |-> "large"] >>

\* C39: the calls that leave customerId out act on the one order stored
\* under "default", whichever session the agent serves: the store has no
\* other entry, a line added for one session is in the order every session
\* sees, and a status, removal or cancellation asked for another session
\* reports, removes or cancels it.
C39_OneDefaultOrder == DOMAIN orderState \subseteq {"default"}

C39_Step ==
    toolCall'.op # "none" =>
        LET old == ItemsOf(orderState, "default")
            new == ItemsOf(orderState', "default")
        IN  /\ toolCall'.customerId = "default"
            /\ IsCall(toolCall', "add_to_order") =>
                  <<toLowerCase(toolCall'.item), toolCall'.size>> \in KeySet(new)
            /\ IsCall(toolCall', "get_order_status") /\ old # <<>> =>
                  toolResult' = [kind |-> "status", summary |-> orderSummary(old)]
            /\ ( /\ IsCall(toolCall', "remove_from_order")
                 /\ \E k \in 1..Len(old) :
                       toLowerCase(old[k].item) = toLowerCase(toolCall'.item) ) =>
                  toolResult'.kind = "removed" /\ Len(new) = Len(old) - 1
            /\ IsCall(toolCall', "cancel_order") /\ old # <<>> =>
                  toolResult'.kind = "cancelled" /\ new = <<>>

C39_SessionsShareDefaultOrder == []C39_OneDefaultOrder /\ [][C39_Step]_vars

\* The agent serving the second session, in its first tool call, cancelled
\* the order that the calls for the first session had built.
C39_Witness ==
    /\ toolCaller.last = 2 /\ toolCaller.earlier = {1}
    /\ IsCall(toolCall, "cancel_order") /\ toolResult.kind = "cancelled"
    /\ ~MapHas(orderState, "default")

\* ------------------------------------------------- synthesis after an error
\* The rank of the final transcript at position i among the final
\* transcripts of agentStream's output.
TurnNumber(i) == CountBefore(agentOut, i + 1, {"stt_output"})

\* The texts of the agent_chunk events of the turn of the final transcript
\* at position i, joined.
TurnText(i) == Join(ChunkTexts(SubSeq(agentOut, i + 1, NextFinal(i) - 1)))

\* C31: when the agent fails after agent_chunk events of the turn were
\* yielded, the turn still gets its agent_end and tts.sendText is called
\* with the concatenation of exactly those chunks: every turn that has
\* text and is no longer being processed has its send, with its own text.
C31_PartialTextIsSent ==
    \A i \in Finals :
        (/\ TurnText(i) # <<>>
         /\ ~(TurnOpen /\ NextFinal(i) > Len(agentOut))) =>
            /\ TurnEnds(i) # {}
            /\ Len(ttsSendLog) >= TurnNumber(i)
            /\ ttsSendLog[TurnNumber(i)] = TurnText(i)

\* ------------------------------------------------------ audio after the turn
\* What ttsStream has put out or holds in its passthrough, in order.
TtsOutput == ttsOut \o ttsPass.items

C33_NoReadWhileSending ==
    /\ ttsProd = "sending" =>
          /\ agentPc = "atYield"
          /\ ttsPushedUp # <<>>
          /\ ttsPushedUp[Len(ttsPushedUp)] = AgentEnd
          /\ ttsPushedUp = agentOut
    /\ agentPc = "atYield" => ttsProd = "sending"
    /\ \A k \in 1..Len(ttsSendLog) :
          \E e \in 1..Len(ttsPushedUp) :
             /\ ttsPushedUp[e].type = "agent_end"
             /\ CountBefore(ttsPushedUp, e + 1, {"agent_end"}) = k

\* The second turn's text is being sent while a transcript waits to be read.
C33_Witness ==
    /\ ttsProd = "sending" /\ Len(ttsSendLog) = 2
    /\ sttPass.items # <<>>

\* ------------------------------------------------------ no send after close
\* C34: once stt.close() has been called stt.sendAudio is not called again,
\* and once tts.close() has been called tts.sendText is not called again.
C34_Step ==
    /\ sttCloseCalls > 0 => sttSendLog' = sttSendLog
    /\ ttsCloseCalls > 0 => ttsSendLog' = ttsSendLog
    /\ sttCloseCalls' > sttCloseCalls => sttSendLog' = sttSendLog
    /\ ttsCloseCalls' > ttsCloseCalls => ttsSendLog' = ttsSendLog

C34_NoSendAfterClose == [][C34_Step]_vars

\* Both vendors were sent something and both have been closed; a frame was
\* waiting in inputStream when the socket closed.
C34_Witness ==
    /\ sttCloseCalls = 1 /\ ttsCloseCalls = 1
    /\ sttSendLog # <<>> /\ ttsSendLog # <<>>
    /\ queuedAtCancel >= 1

\* ------------------------------------------------- text sent on agent_end only
\* C35: tts.sendText is called only when an agent_end is read, with the
\* buffer joined; when the producer's input ends with texts in the buffer,
\* tts.close() is called and those texts are not sent.
C35_Step ==
    /\ ttsSendLog' # ttsSendLog =>
          /\ Len(ttsPushedUp') > Len(ttsPushedUp)
          /\ ttsPushedUp'[Len(ttsPushedUp')].type = "agent_end"
          /\ ttsSendLog' = Append(ttsSendLog, Join(buffer'))
    /\ ttsCloseCalls' > ttsCloseCalls =>
          /\ ttsSendLog' = ttsSendLog
          /\ buffer' = buffer

====
